---- MODULE Spec2Model ----
(***************************************************************************)
(* A model of the aggregation / trend engine of the textile-quality        *)
(* dashboard: TrendTab.calculateTrend (live-report/AlarmsView.tsx),        *)
(* SearchTab.groupData (long-term-report/SearchTab.tsx) and the percent    *)
(* change column of TrendView.renderRows (live-report/TrendView.tsx and    *)
(* its allKeys variant).                                                   *)
(*                                                                         *)
(* JavaScript values are modelled with their dynamic type: a record field  *)
(* may be undefined (absent), null, a string or a number, a number may be  *)
(* NaN or infinite, and a string is a sequence of one-character strings so *)
(* that parsing, formatting and comparing strings are computed.            *)
(* Dates are taken in a UTC environment (local time = UTC).                *)
(***************************************************************************)
EXTENDS Integers, Sequences, FiniteSets, TLC

VARIABLES
    activeTab,            \* LongTermReport state: the tab that is mounted
    data,                 \* LongTermReport data: the fetched record array
    selectedUnit,         \* TrendTab state
    selectedTrendGroup,
    selectedFirstColumn,
    selectedParameter,
    selectedTrendValues,
    trendResponse,        \* TrendTab state: null or {data, labels, dates, drillDownData}
    trendMap,             \* calculateTrend: the accumulators of its last pass
    groupBy,              \* SearchTab state
    reportType,
    filterField,
    selectedFilterValues,
    groups,               \* groupData: the accumulators of its last pass
    groupedRows,          \* SearchTab: the rows rendered from groupData()
    response,             \* TrendView props
    hideEmptyLatest,
    rendered,             \* TrendView: the rendered rows (label, diffPercent)
    pdfBody,              \* LiveReport.downloadPDF: the body of the trend table of the PDF
    loading,              \* LongTermReport state: a fetch is under way
    trendLoading,         \* TrendTab state
    inflight,             \* the fetches under way: the records each is to return
    timer,                \* the pending 500 ms timers of handleShowData: their closures
    fetchLog,             \* the requests issued so far and the origin of data
    unitData,             \* the live report of a unit (LiveReportData), if any
    machineWiseData,      \* the last result of getMachineWiseData(unitData)
    liveReport            \* LiveReport: its tab, its filters and its polling interval

vars == <<activeTab, data, selectedUnit, selectedTrendGroup, selectedFirstColumn,
          selectedParameter, selectedTrendValues, trendResponse, trendMap,
          groupBy, reportType, filterField, selectedFilterValues, groups, groupedRows,
          response, hideEmptyLatest, rendered, pdfBody, loading, trendLoading, inflight,
          timer, fetchLog, unitData, machineWiseData, liveReport>>

trendVars == <<selectedUnit, selectedTrendGroup, selectedFirstColumn,
               selectedParameter, selectedTrendValues, trendResponse, trendMap>>
searchVars == <<groupBy, reportType, filterField, selectedFilterValues, groups, groupedRows>>
viewVars == <<response, hideEmptyLatest, rendered, pdfBody>>
fetchVars == <<loading, trendLoading, inflight, timer, fetchLog>>
liveVars == <<unitData, machineWiseData, liveReport>>

----------------------------------------------------------------------------
(* Bounds of the model.                                                    *)

\* the longest record array that is fetched
MaxRecords == 2
\* the largest metric / length value of a record
MaxVal == 2
\* the longest record array whose orders are compared
MaxOrderRecords == 3
\* the most buckets (columns) of a trend table that is rendered
MaxBuckets == 3
\* the longest record array that is grouped by week
MaxWeeklyRecords == 2

----------------------------------------------------------------------------
(* Strings: sequences of one-character strings.                            *)

Ascii ==
    <<" ", "!", "dquote", "#", "$", "%", "&", "'", "(", ")", "*", "+", ",", "-", ".", "/",
      "0", "1", "2", "3", "4", "5", "6", "7", "8", "9", ":", ";", "<", "=", ">", "?",
      "@", "A", "B", "C", "D", "E", "F", "G", "H", "I", "J", "K", "L", "M", "N", "O",
      "P", "Q", "R", "S", "T", "U", "V", "W", "X", "Y", "Z", "[", "bslash", "]", "^", "_",
      "btick", "a", "b", "c", "d", "e", "f", "g", "h", "i", "j", "k", "l", "m", "n", "o",
      "p", "q", "r", "s", "t", "u", "v", "w", "x", "y", "z">>

\* the UTF-16 code unit of a character
CodeUnit(c) == 31 + (CHOOSE i \in 1..Len(Ascii) : Ascii[i] = c)

Digits == <<"0", "1", "2", "3", "4", "5", "6", "7", "8", "9">>

IsDigit(c) == \E i \in 1..10 : Digits[i] = c

DigitVal(c) == (CHOOSE i \in 1..10 : Digits[i] = c) - 1

RECURSIVE DigitsVal(_)
\* the value of a run of decimal digits
DigitsVal(s) ==
    IF s = <<>> THEN 0
    ELSE DigitsVal(SubSeq(s, 1, Len(s) - 1)) * 10 + DigitVal(s[Len(s)])

AllDigits(s) == \A i \in 1..Len(s) : IsDigit(s[i])

RECURSIVE NatToStr(_)
\* the decimal digits of a natural number
NatToStr(n) ==
    IF n < 10 THEN <<Digits[n + 1]>>
    ELSE NatToStr(n \div 10) \o <<Digits[(n % 10) + 1]>>

RECURSIVE PadStart(_, _, _)
\* String.prototype.padStart
PadStart(s, len, c) == IF Len(s) >= len THEN s ELSE PadStart(<<c>> \o s, len, c)

RECURSIVE Pow10(_)
Pow10(k) == IF k = 0 THEN 1 ELSE 10 * Pow10(k - 1)

\* the position of the first c in s, 0 when there is none
IndexOf(s, c) ==
    IF \E i \in 1..Len(s) : s[i] = c
    THEN CHOOSE i \in 1..Len(s) : s[i] = c /\ \A j \in 1..(i - 1) : s[j] # c
    ELSE 0

StartsWith(s, p) == Len(p) <= Len(s) /\ SubSeq(s, 1, Len(p)) = p

----------------------------------------------------------------------------
(* JavaScript values.  Every value is a record with the same fields:       *)
(* t the type tag, s the characters of a string, k the kind of a number    *)
(* ("fin", "nan" or "inf"), and h, n, d the finite number h * 2^53 + n / d *)
(* (d positive; n is not negative when h is not 0); an infinity keeps its  *)
(* sign in n.  A number is a double: below 2^53 the model keeps the exact  *)
(* quotient n / d, from 2^53 on it keeps the integers that a double holds. *)

Undef == [t |-> "undefined", s |-> <<>>, k |-> "fin", h |-> 0, n |-> 0, d |-> 1]
Null == [t |-> "null", s |-> <<>>, k |-> "fin", h |-> 0, n |-> 0, d |-> 1]
Str(chars) == [t |-> "string", s |-> chars, k |-> "fin", h |-> 0, n |-> 0, d |-> 1]
RECURSIVE Gcd(_, _)
Gcd(a, b) == IF b = 0 THEN a ELSE Gcd(b, a % b)

\* the number num / den, in lowest terms
Frac(num, den) ==
    LET g == Gcd(IF num < 0 THEN -num ELSE num, den)
    IN  [t |-> "number", s |-> <<>>, k |-> "fin", h |-> 0, n |-> num \div g, d |-> den \div g]
Num(i) == Frac(i, 1)
NaN == [t |-> "number", s |-> <<>>, k |-> "nan", h |-> 0, n |-> 0, d |-> 1]
Inf(sign) == [t |-> "number", s |-> <<>>, k |-> "inf", h |-> 0, n |-> sign, d |-> 1]

\* the double h * 2^53 + i, for h > 0 and a multiple i of its spacing
Big(hi, i) == [t |-> "number", s |-> <<>>, k |-> "fin", h |-> hi, n |-> i, d |-> 1]

\* the distance of the doubles from h * 2^53 up, for 1 <= h
RECURSIVE Spacing(_)
Spacing(hi) == IF hi <= 1 THEN 2 ELSE 2 * Spacing(hi \div 2)

\* the double nearest to hi * 2^53 + num / den, the one of the even mantissa
\* on a tie (the rounding of IEEE 754), for hi > 0 and 0 <= num / den < 2^53
RoundToDouble(hi, num, den) ==
    LET sp == Spacing(hi)
        f == num \div (den * sp)
        r == num - f * den * sp
        q == IF 2 * r < den * sp THEN f
             ELSE IF 2 * r > den * sp THEN f + 1
             ELSE IF f % 2 = 0 THEN f ELSE f + 1
    IN  Big(hi, q * sp)

\* typeof v === "number"
IsNumberType(v) == v.t = "number"

IsNaN(v) == v.t = "number" /\ v.k = "nan"
IsFinite(v) == v.t = "number" /\ v.k = "fin"
IsInfinite(v) == v.t = "number" /\ v.k = "inf"

\* x === 0 for a number x
IsZero(v) == IsFinite(v) /\ v.n = 0 /\ v.h = 0

\* x > 0 for a number x (false for NaN)
GtZero(v) == (IsFinite(v) /\ (v.n > 0 \/ v.h > 0)) \/ (IsInfinite(v) /\ v.n > 0)

\* ToBoolean
Truthy(v) ==
    CASE v.t = "undefined" -> FALSE
      [] v.t = "null" -> FALSE
      [] v.t = "string" -> v.s # <<>>
      [] OTHER -> IsInfinite(v) \/ (IsFinite(v) /\ (v.n # 0 \/ v.h # 0))

\* a || b
OrElse(a, b) == IF Truthy(a) THEN a ELSE b

\* StringToNumber for the literals [-]digits[.digits], "", "NaN" and "Infinity"
StringToNumber(s) ==
    LET neg == s # <<>> /\ s[1] = "-"
        body == IF neg THEN Tail(s) ELSE s
        dot == IndexOf(body, ".")
        ip == IF dot = 0 THEN body ELSE SubSeq(body, 1, dot - 1)
        fp == IF dot = 0 THEN <<>> ELSE SubSeq(body, dot + 1, Len(body))
        sign == IF neg THEN -1 ELSE 1
    IN  IF s = <<>> THEN Num(0)
        ELSE IF body = <<"I", "n", "f", "i", "n", "i", "t", "y">> THEN Inf(sign)
        ELSE IF AllDigits(ip) /\ AllDigits(fp) /\ Len(ip) + Len(fp) > 0
        THEN Frac(sign * (DigitsVal(ip) * Pow10(Len(fp)) + DigitsVal(fp)), Pow10(Len(fp)))
        ELSE NaN

\* Number(v)
ToNumber(v) ==
    CASE v.t = "undefined" -> NaN
      [] v.t = "null" -> Num(0)
      [] v.t = "string" -> StringToNumber(v.s)
      [] OTHER -> v

\* a + b for two numbers
Add(a, b) ==
    IF IsNaN(a) \/ IsNaN(b) THEN NaN
    ELSE IF IsInfinite(a) /\ IsInfinite(b) THEN (IF a.n = b.n THEN a ELSE NaN)
    ELSE IF IsInfinite(a) THEN a
    ELSE IF IsInfinite(b) THEN b
    ELSE IF a.h + b.h > 0 THEN RoundToDouble(a.h + b.h, a.n * b.d + b.n * a.d, a.d * b.d)
    ELSE Frac(a.n * b.d + b.n * a.d, a.d * b.d)

\* a - b for two numbers below 2^53
Sub(a, b) == Add(a, IF IsNaN(b) THEN NaN ELSE [b EXCEPT !.n = -b.n])

\* a * b for two numbers below 2^53
Mul(a, b) ==
    IF IsNaN(a) \/ IsNaN(b) THEN NaN
    ELSE IF IsInfinite(a) \/ IsInfinite(b)
    THEN (IF a.n = 0 \/ b.n = 0 THEN NaN
          ELSE Inf(IF (a.n > 0) = (b.n > 0) THEN 1 ELSE -1))
    ELSE Frac(a.n * b.n, a.d * b.d)

\* a / b for two numbers below 2^53: x/0 is an infinity and 0/0 is NaN, nothing is thrown
Div(a, b) ==
    IF IsNaN(a) \/ IsNaN(b) THEN NaN
    ELSE IF IsInfinite(a) THEN (IF IsInfinite(b) THEN NaN
                                ELSE Inf(IF (a.n > 0) = (b.n >= 0) THEN 1 ELSE -1))
    ELSE IF IsInfinite(b) THEN Num(0)
    ELSE IF b.n = 0 THEN (IF a.n = 0 THEN NaN ELSE Inf(IF a.n > 0 THEN 1 ELSE -1))
    ELSE IF b.n > 0 THEN Frac(a.n * b.d, a.d * b.n)
    ELSE Frac(-(a.n * b.d), a.d * (-b.n))

\* two numbers are the same number (=== on numbers; NaN equals nothing)
NumEq(a, b) ==
    /\ ~IsNaN(a) /\ ~IsNaN(b)
    /\ IF IsInfinite(a) \/ IsInfinite(b)
       THEN IsInfinite(a) /\ IsInfinite(b) /\ a.n = b.n
       ELSE a.h = b.h /\ a.n * b.d = b.n * a.d

\* Number.prototype.toFixed(digits) of a number below 2^53: the nearest
\* decimal with that many digits, the larger one on a tie of the magnitude
ToFixed(x, digits) ==
    IF IsNaN(x) THEN <<"N", "a", "N">>
    ELSE IF IsInfinite(x)
    THEN (IF x.n < 0 THEN <<"-">> ELSE <<>>) \o <<"I", "n", "f", "i", "n", "i", "t", "y">>
    ELSE LET mag == IF x.n < 0 THEN -x.n ELSE x.n
             q == (2 * mag * Pow10(digits) + x.d) \div (2 * x.d)
             ip == NatToStr(q \div Pow10(digits))
             fp == PadStart(NatToStr(q % Pow10(digits)), digits, "0")
         IN  (IF x.n < 0 THEN <<"-">> ELSE <<>>)
             \o ip \o (IF digits = 0 THEN <<>> ELSE <<".">> \o fp)

\* the decimal digits of 2^53
TwoPow53 == <<"9", "0", "0", "7", "1", "9", "9", "2", "5", "4", "7", "4", "0", "9", "9", "2">>

RECURSIVE DigitsMulAdd(_, _, _)
\* the decimal digits of s * k + c, for a run s of digits and naturals k, c
DigitsMulAdd(s, k, c) ==
    IF s = <<>> THEN (IF c = 0 THEN <<>> ELSE NatToStr(c))
    ELSE LET v == DigitVal(s[Len(s)]) * k + c
         IN  DigitsMulAdd(SubSeq(s, 1, Len(s) - 1), k, v \div 10) \o <<Digits[(v % 10) + 1]>>

\* Number.prototype.toString of the double x = h * 2^53 + n, h > 0: the
\* shortest run of digits, filled with zeros, that no other double is
\* nearer to (a double of the even mantissa wins a tie)
BigToString(x) ==
    LET sp == Spacing(x.h)
        last == (2 * x.h + x.n) % 10
        even == (x.n \div sp) % 2 = 0
        near(dist) == 2 * dist < sp \/ (2 * dist = sp /\ even)
    IN  IF last # 0 /\ near(last) THEN DigitsMulAdd(TwoPow53, x.h, x.n - last)
        ELSE IF last # 0 /\ near(10 - last) THEN DigitsMulAdd(TwoPow53, x.h, x.n + 10 - last)
        ELSE DigitsMulAdd(TwoPow53, x.h, x.n)

\* Number.prototype.toString for NaN, the infinities and the integers
NumberToString(x) ==
    IF IsNaN(x) THEN <<"N", "a", "N">>
    ELSE IF IsInfinite(x)
    THEN (IF x.n < 0 THEN <<"-">> ELSE <<>>) \o <<"I", "n", "f", "i", "n", "i", "t", "y">>
    ELSE IF x.h > 0 THEN BigToString(x)
    ELSE LET i == x.n \div x.d
         IN  IF i < 0 THEN <<"-">> \o NatToStr(-i) ELSE NatToStr(i)

\* String(v)
JsString(v) ==
    CASE v.t = "undefined" -> <<"u", "n", "d", "e", "f", "i", "n", "e", "d">>
      [] v.t = "null" -> <<"n", "u", "l", "l">>
      [] v.t = "string" -> v.s
      [] OTHER -> NumberToString(v)

\* r[f]: a property that the object does not have is undefined
Get(r, f) == IF f \in DOMAIN r THEN r[f] ELSE Undef

----------------------------------------------------------------------------
(* Dates.  A Date is invalid or a calendar day; the model reads the ISO    *)
(* form YYYY-MM-DD, every other string of the model is unparseable.        *)

InvalidDate == [valid |-> FALSE, y |-> 0, m |-> 0, d |-> 0]
DateOf(year, month, day) == [valid |-> TRUE, y |-> year, m |-> month, d |-> day]

DaysInMonth(year, month) ==
    IF month \in {4, 6, 9, 11} THEN 30
    ELSE IF month = 2 THEN (IF year % 4 = 0 THEN 29 ELSE 28)
    ELSE 31

\* Date.parse of a string
ParseDate(s) ==
    IF /\ Len(s) = 10
       /\ s[5] = "-" /\ s[8] = "-"
       /\ AllDigits(SubSeq(s, 1, 4)) /\ AllDigits(SubSeq(s, 6, 7)) /\ AllDigits(SubSeq(s, 9, 10))
    THEN LET year == DigitsVal(SubSeq(s, 1, 4))
             month == DigitsVal(SubSeq(s, 6, 7))
             day == DigitsVal(SubSeq(s, 9, 10))
         IN  IF month \in 1..12 /\ day \in 1..DaysInMonth(year, month)
             THEN DateOf(year, month, day)
             ELSE InvalidDate
    ELSE InvalidDate

\* new Date(v): undefined and NaN give an invalid date, null and the (small)
\* numbers of the model a time value in the first day of the epoch
NewDate(v) ==
    CASE v.t = "undefined" -> InvalidDate
      [] v.t = "null" -> DateOf(1970, 1, 1)
      [] v.t = "string" -> ParseDate(v.s)
      [] OTHER -> IF IsFinite(v) THEN DateOf(1970, 1, 1) ELSE InvalidDate

\* d.toISOString().split('T')[0]
IsoDateString(date) ==
    PadStart(NatToStr(date.y), 4, "0") \o <<"-">> \o PadStart(NatToStr(date.m), 2, "0")
        \o <<"-">> \o PadStart(NatToStr(date.d), 2, "0")

----------------------------------------------------------------------------
(* Sorting.                                                                *)

RECURSIVE CompareCodeUnits(_, _)
\* the order of two strings by their UTF-16 code units: < 0, 0 or > 0
CompareCodeUnits(a, b) ==
    IF a = <<>> THEN (IF b = <<>> THEN 0 ELSE -1)
    ELSE IF b = <<>> THEN 1
    ELSE IF a[1] = b[1] THEN CompareCodeUnits(Tail(a), Tail(b))
    ELSE CodeUnit(a[1]) - CodeUnit(b[1])

\* the comparison of Array.prototype.sort() without a comparator, on values
DefaultCompare(x, y) == CompareCodeUnits(JsString(x), JsString(y))

RECURSIVE InsertDefault(_, _)
\* x put into the sorted sequence s, behind the elements it does not precede
InsertDefault(s, x) ==
    IF s = <<>> THEN <<x>>
    ELSE IF DefaultCompare(x, Head(s)) < 0 THEN <<x>> \o s
    ELSE <<Head(s)>> \o InsertDefault(Tail(s), x)

RECURSIVE SortDefaultFrom(_, _)
SortDefaultFrom(done, rest) ==
    IF rest = <<>> THEN done
    ELSE SortDefaultFrom(InsertDefault(done, Head(rest)), Tail(rest))

\* arr.sort(): a stable sort by the string forms of the elements
ArraySort(arr) == SortDefaultFrom(<<>>, arr)

\* the elements of a sequence
Range(s) == {s[i] : i \in 1..Len(s)}

Includes(s, x) == \E i \in 1..Len(s) : s[i] = x

\* Set.prototype.add on an insertion-ordered set
SetAdd(s, x) == IF Includes(s, x) THEN s ELSE Append(s, x)

RECURSIVE SetToSeq(_)
\* some enumeration of a finite set
SetToSeq(S) ==
    IF S = {} THEN <<>>
    ELSE LET x == CHOOSE e \in S : TRUE IN <<x>> \o SetToSeq(S \ {x})

----------------------------------------------------------------------------
(* TrendTab (live-report/AlarmsView.tsx).                                  *)

\* an object used as a map from string keys to values
EmptyMap == [key \in {} |-> Undef]
Put(map, key, val) == [x \in (DOMAIN map) \cup {key} |-> IF x = key THEN val ELSE map[x]]

\* a === b
StrictEq(a, b) ==
    IF a.t = "number" /\ b.t = "number" THEN NumEq(a, b) ELSE a = b

\* arr.includes(x) for an array of strings (given by their characters)
IncludesValue(arr, x) == \E i \in 1..Len(arr) : StrictEq(Str(arr[i]), x)

Unknown == <<"U", "n", "k", "n", "o", "w", "n">>

GROUP_PARAMETERS ==
    [quality |-> {"Nep140", "Nep200", "Nep280", "Nep400", "Thick35", "Thick50", "Thick70",
                  "Thick100", "Thin40", "Thin30", "Thin50", "Thin60", "CVAvg", "HAvg",
                  "IPI", "HSIPI"},
     cuts |-> {"YarnFaults", "YarnJoints", "YarnBreaks", "NCuts", "SCuts", "LCuts", "TCuts",
               "FDCuts", "PPCuts", "CpCuts", "CmCuts", "CCpCuts", "CCmCuts", "JpCuts",
               "JmCuts", "PFCuts"},
     alarms |-> {"totalAlarms", "NSABlks", "LABlks", "TABlks", "CABlks", "CCABlks", "FABlks",
                 "PPABlks", "PFABlks", "CVpABlks", "HpABlks", "CMTABlks"},
     cmt |-> {"B_A1Events", "B_A2Events", "B_B1Events", "B_B2Events"}]

DEFAULT_GROUP_PARAMETERS ==
    [quality |-> "IPI", cuts |-> "YarnFaults", alarms |-> "totalAlarms", cmt |-> "B_A1Events"]

FIRST_COLUMN_OPTIONS == {"unit", "articlename", "articlenumber", "lotid", "machinename"}

alarmColumns ==
    <<"NSABlks", "LABlks", "TABlks", "CABlks", "CCABlks", "FABlks", "PPABlks", "PFABlks",
      "CVpABlks", "HpABlks", "CMTABlks">>

RECURSIVE ReduceAlarms(_, _, _)
\* alarmColumns.reduce((acc, col) => acc + (Number(item[col]) || 0), 0), from column i
ReduceAlarms(item, i, acc) ==
    IF i > Len(alarmColumns) THEN acc
    ELSE ReduceAlarms(item, i + 1,
                      Add(acc, OrElse(ToNumber(Get(item, alarmColumns[i])), Num(0))))

\* Number(item[f] || 0)
NumberOrZero(item, f) == ToNumber(OrElse(Get(item, f), Num(0)))

\* the value val that a record adds to the sum of the selected parameter
ParameterValue(item, parameter) ==
    IF parameter = "IPI"
    THEN Add(Add(NumberOrZero(item, "Thin50"), NumberOrZero(item, "Thick50")),
             NumberOrZero(item, "Nep200"))
    ELSE IF parameter = "HSIPI"
    THEN Add(Add(NumberOrZero(item, "Thin40"), NumberOrZero(item, "Thick35")),
             NumberOrZero(item, "Nep140"))
    ELSE IF parameter = "totalAlarms" THEN ReduceAlarms(item, 1, Num(0))
    ELSE OrElse(ToNumber(Get(item, parameter)), Num(0))

\* the label of a record under the chosen first column
TrendLabel(item, firstColumn) ==
    CASE firstColumn = "unit" -> Str(JsString(Get(item, "MillUnit")))
      [] firstColumn = "articlename" -> OrElse(Get(item, "ArticleName"), Str(Unknown))
      [] firstColumn = "articlenumber" -> OrElse(Get(item, "ArticleNumber"), Str(Unknown))
      [] firstColumn = "lotid" -> OrElse(Get(item, "LotID"), Str(Unknown))
      [] firstColumn = "machinename" -> OrElse(Get(item, "MachineName"), Str(Unknown))
      [] OTHER -> Str(Unknown)

NewMachineStats == [sum |-> Num(0), refLength |-> Num(0), yarnLength |-> Num(0), count |-> Num(0)]

NewStats ==
    [sum |-> Num(0), refLength |-> Num(0), yarnLength |-> Num(0), count |-> Num(0),
     machines |-> EmptyMap]

\* the mutant of Accumulate: the yarn length is overwritten, not added
AccumulateLastLength(stats, val, ipRefLength, yarnLength) ==
    [stats EXCEPT !.sum = Add(@, val),
                  !.refLength = Add(@, ipRefLength),
                  !.yarnLength = yarnLength,
                  !.count = Add(@, Num(1))]

\* stats.sum += val; stats.refLength += ipRefLength; ... on a (sub-)accumulator
Accumulate(stats, val, ipRefLength, yarnLength) ==
    [stats EXCEPT !.sum = Add(@, val),
                  !.refLength = Add(@, ipRefLength),
                  !.yarnLength = Add(@, yarnLength),
                  !.count = Add(@, Num(1))]

\* the mutant of TrendSkips: the value filter is not applied
TrendSkipsWithoutValueFilter(item, sel) ==
    \/ sel.selectedUnit # <<>> /\ ~StrictEq(Get(item, "MillUnit"), Str(sel.selectedUnit))
    \/ ~NewDate(Get(item, "ShiftStartTime")).valid

\* whether the forEach body returns before it touches any set or accumulator
TrendSkips(item, sel) ==
    \/ sel.selectedUnit # <<>> /\ ~StrictEq(Get(item, "MillUnit"), Str(sel.selectedUnit))
    \/ ~NewDate(Get(item, "ShiftStartTime")).valid
    \/ /\ Len(sel.selectedTrendValues) > 0
       /\ ~IncludesValue(sel.selectedTrendValues, TrendLabel(item, sel.selectedFirstColumn))

\* the mutant of TrendStep: every record goes to the sub-accumulator Unknown
TrendStepOneMachine(acc, item, sel) ==
    IF TrendSkips(item, sel) THEN acc
    ELSE
    LET dateStr == IsoDateString(NewDate(Get(item, "ShiftStartTime")))
        label == TrendLabel(item, sel.selectedFirstColumn)
        key == JsString(label)
        val == ParameterValue(item, sel.selectedParameter)
        ipRefLength == NumberOrZero(item, "IPRefLength")
        yarnLength == NumberOrZero(item, "YarnLength")
        byLabel == IF dateStr \in DOMAIN acc.trendMap THEN acc.trendMap[dateStr] ELSE EmptyMap
        stats0 == IF key \in DOMAIN byLabel THEN byLabel[key] ELSE NewStats
        stats1 == Accumulate(stats0, val, ipRefLength, yarnLength)
        mach0 == IF Unknown \in DOMAIN stats1.machines
                 THEN stats1.machines[Unknown] ELSE NewMachineStats
        stats2 == [stats1 EXCEPT !.machines =
                      Put(@, Unknown, Accumulate(mach0, val, ipRefLength, yarnLength))]
    IN  [trendMap |-> Put(acc.trendMap, dateStr, Put(byLabel, key, stats2)),
         labelsSet |-> SetAdd(acc.labelsSet, label),
         datesSet |-> SetAdd(acc.datesSet, Str(dateStr))]

\* one pass of the body of data.forEach over the record item
TrendStep(acc, item, sel) ==
    IF TrendSkips(item, sel) THEN acc
    ELSE
    LET dateStr == IsoDateString(NewDate(Get(item, "ShiftStartTime")))
        label == TrendLabel(item, sel.selectedFirstColumn)
        key == JsString(label)
        val == ParameterValue(item, sel.selectedParameter)
        ipRefLength == NumberOrZero(item, "IPRefLength")
        yarnLength == NumberOrZero(item, "YarnLength")
        machineName == JsString(OrElse(Get(item, "MachineName"), Str(Unknown)))
        byLabel == IF dateStr \in DOMAIN acc.trendMap THEN acc.trendMap[dateStr] ELSE EmptyMap
        stats0 == IF key \in DOMAIN byLabel THEN byLabel[key] ELSE NewStats
        stats1 == Accumulate(stats0, val, ipRefLength, yarnLength)
        mach0 == IF machineName \in DOMAIN stats1.machines
                 THEN stats1.machines[machineName] ELSE NewMachineStats
        stats2 == [stats1 EXCEPT !.machines =
                      Put(@, machineName, Accumulate(mach0, val, ipRefLength, yarnLength))]
    IN  [trendMap |-> Put(acc.trendMap, dateStr, Put(byLabel, key, stats2)),
         labelsSet |-> SetAdd(acc.labelsSet, label),
         datesSet |-> SetAdd(acc.datesSet, Str(dateStr))]

RECURSIVE TrendFold(_, _, _)
\* data.forEach(item => ...)
TrendFold(acc, records, sel) ==
    IF records = <<>> THEN acc
    ELSE TrendFold(TrendStep(acc, Head(records), sel), Tail(records), sel)

\* the mutant of calculateFinal: CVAvg and HAvg are divided by the length too
calculateFinalByLength(s, sel) ==
    IF sel.selectedTrendGroup = "quality"
    THEN IF GtZero(s.refLength) THEN Str(ToFixed(Div(s.sum, s.refLength), 2))
         ELSE Str(<<"0", ".", "0", "0">>)
    ELSE IF sel.selectedTrendGroup = "cuts" \/ sel.selectedTrendGroup = "cmt"
    THEN IF GtZero(s.yarnLength)
         THEN Str(ToFixed(Mul(Div(s.sum, s.yarnLength), Num(100)), 2))
         ELSE Str(<<"0", ".", "0", "0">>)
    ELSE Str(NumberToString(s.sum))

\* the mutant of calculateFinal: the guards of the denominators are dropped
calculateFinalUnguarded(s, sel) ==
    IF sel.selectedTrendGroup = "quality"
    THEN IF sel.selectedParameter = "CVAvg" \/ sel.selectedParameter = "HAvg"
         THEN Str(ToFixed(Div(s.sum, s.count), 2))
         ELSE Str(ToFixed(Div(s.sum, s.refLength), 2))
    ELSE IF sel.selectedTrendGroup = "cuts" \/ sel.selectedTrendGroup = "cmt"
    THEN Str(ToFixed(Mul(Div(s.sum, s.yarnLength), Num(100)), 2))
    ELSE Str(NumberToString(s.sum))

\* the finalizer of the trend engine
calculateFinal(s, sel) ==
    IF sel.selectedTrendGroup = "quality"
    THEN IF sel.selectedParameter = "CVAvg" \/ sel.selectedParameter = "HAvg"
         THEN IF GtZero(s.count) THEN Str(ToFixed(Div(s.sum, s.count), 2))
              ELSE Str(<<"0", ".", "0", "0">>)
         ELSE IF GtZero(s.refLength) THEN Str(ToFixed(Div(s.sum, s.refLength), 2))
              ELSE Str(<<"0", ".", "0", "0">>)
    ELSE IF sel.selectedTrendGroup = "cuts" \/ sel.selectedTrendGroup = "cmt"
    THEN IF GtZero(s.yarnLength)
         THEN Str(ToFixed(Mul(Div(s.sum, s.yarnLength), Num(100)), 2))
         ELSE Str(<<"0", ".", "0", "0">>)
    ELSE Str(NumberToString(s.sum))

\* the mutant of TrendAccumulators: the label set starts with the placeholder
TrendAccumulatorsSeeded(records, sel) ==
    TrendFold([trendMap |-> EmptyMap, labelsSet |-> <<Str(Unknown)>>, datesSet |-> <<>>],
              records, sel)

\* the accumulators after the forEach loop of calculateTrend
TrendAccumulators(records, sel) ==
    TrendFold([trendMap |-> EmptyMap, labelsSet |-> <<>>, datesSet |-> <<>>], records, sel)

\* the machine names seen under a label, over all dates (labelMachineMap[label])
LabelMachines(tm, key) ==
    UNION {DOMAIN tm[date][key].machines : date \in {x \in DOMAIN tm : key \in DOMAIN tm[x]}}

\* the property of a row that holds its date: a label or a machine of that
\* name is written to the same property
DateProperty == <<"d", "a", "t", "e">>

\* const row = { date }; then row[label] = ... for the cells: the row as the
\* date that find(d => d.date === ...) reads and the cells by label
RowOf(date, cells) ==
    [date |-> IF DateProperty \in DOMAIN cells THEN cells[DateProperty] ELSE date,
     cells |-> cells]

\* the rows, labels, dates and drill-down tables built from the accumulators
TrendResponseOf(acc, sel) ==
    LET tm == acc.trendMap
        sortedDates == ArraySort(acc.datesSet)
        result == [i \in 1..Len(sortedDates) |->
                     LET date == sortedDates[i].s
                     IN  RowOf(sortedDates[i],
                               [key \in DOMAIN tm[date] |-> calculateFinal(tm[date][key], sel)])]
        keys == UNION {DOMAIN tm[date] : date \in DOMAIN tm}
        drillDownData ==
            [key \in keys |->
                LET machines == ArraySort(SetToSeq({Str(m) : m \in LabelMachines(tm, key)}))
                IN  [labels |-> machines,
                     data |-> [i \in 1..Len(sortedDates) |->
                        LET date == sortedDates[i].s
                        IN  RowOf(sortedDates[i],
                                  [m \in {x \in LabelMachines(tm, key) :
                                             /\ key \in DOMAIN tm[date]
                                             /\ x \in DOMAIN tm[date][key].machines}
                                     |-> calculateFinal(tm[date][key].machines[m], sel)])]]]
    IN  [data |-> result,
         labels |-> ArraySort(acc.labelsSet),
         dates |-> sortedDates,
         drillDownData |-> drillDownData]

\* the response that calculateTrend hands to setTrendResponse
CalculateTrend(records, sel) == TrendResponseOf(TrendAccumulators(records, sel), sel)

----------------------------------------------------------------------------
(* String comparison by collation (String.prototype.localeCompare).        *)

\* the characters in the order of the root collation; a letter stands for
\* both of its cases
CollationOrder ==
    <<" ", "_", "-", ",", ";", ":", "!", "?", ".", "'", "(", ")", "[", "]", "@", "*", "/",
      "&", "#", "%", "^", "+", "<", "=", ">", "$",
      "0", "1", "2", "3", "4", "5", "6", "7", "8", "9",
      "a", "b", "c", "d", "e", "f", "g", "h", "i", "j", "k", "l", "m",
      "n", "o", "p", "q", "r", "s", "t", "u", "v", "w", "x", "y", "z">>

IsUpper(c) == CodeUnit(c) \in 65..90

ToLower(c) == IF IsUpper(c) THEN Ascii[CodeUnit(c) + 32 - 31] ELSE c

\* the primary weight of a character
CollationRank(c) == CHOOSE i \in 1..Len(CollationOrder) : CollationOrder[i] = ToLower(c)

RECURSIVE DigitRunLen(_)
\* the length of the run of digits that starts a string
DigitRunLen(s) == IF s = <<>> \/ ~IsDigit(s[1]) THEN 0 ELSE 1 + DigitRunLen(Tail(s))

RECURSIVE PrimaryCompare(_, _, _)
\* the primary difference of two strings: < 0, 0 or > 0; with numeric, runs
\* of digits compare by their value
PrimaryCompare(a, b, numeric) ==
    IF a = <<>> THEN (IF b = <<>> THEN 0 ELSE -1)
    ELSE IF b = <<>> THEN 1
    ELSE IF numeric /\ IsDigit(a[1]) /\ IsDigit(b[1])
    THEN LET la == DigitRunLen(a)
             lb == DigitRunLen(b)
             va == DigitsVal(SubSeq(a, 1, la))
             vb == DigitsVal(SubSeq(b, 1, lb))
         IN  IF va # vb THEN va - vb
             ELSE PrimaryCompare(SubSeq(a, la + 1, Len(a)), SubSeq(b, lb + 1, Len(b)), numeric)
    ELSE IF CollationRank(a[1]) # CollationRank(b[1])
    THEN CollationRank(a[1]) - CollationRank(b[1])
    ELSE PrimaryCompare(Tail(a), Tail(b), numeric)

RECURSIVE CaseCompare(_, _)
\* the tertiary difference of two strings of equal primary weights: the
\* lower case letter first
CaseCompare(a, b) ==
    IF a = <<>> \/ b = <<>> THEN 0
    ELSE IF IsUpper(a[1]) = IsUpper(b[1]) THEN CaseCompare(Tail(a), Tail(b))
    ELSE IF IsUpper(a[1]) THEN 1 ELSE -1

\* a.localeCompare(b)
LocaleCompare(a, b) ==
    LET p == PrimaryCompare(a, b, FALSE) IN IF p # 0 THEN p ELSE CaseCompare(a, b)

\* a.localeCompare(b, undefined, { numeric: true, sensitivity: 'base' })
NaturalCompare(a, b) == PrimaryCompare(a, b, TRUE)

----------------------------------------------------------------------------
(* SearchTab (long-term-report/SearchTab.tsx).                             *)

NA == <<"N", "/", "A">>

REPORT_COLUMNS ==
    <<[title |-> "YF", field |-> "YarnFaults", type |-> "perLength"],
      [title |-> "N", field |-> "NCuts", type |-> "perLength"],
      [title |-> "S", field |-> "SCuts", type |-> "perLength"],
      [title |-> "L", field |-> "LCuts", type |-> "perLength"],
      [title |-> "T", field |-> "TCuts", type |-> "perLength"],
      [title |-> "FD", field |-> "FDCuts", type |-> "perLength"],
      [title |-> "PP", field |-> "PPCuts", type |-> "perLength"],
      [title |-> "Cp", field |-> "CpCuts", type |-> "perLength"],
      [title |-> "CCp", field |-> "CCpCuts", type |-> "perLength"],
      [title |-> "Cm", field |-> "CmCuts", type |-> "perLength"],
      [title |-> "CCm", field |-> "CCmCuts", type |-> "perLength"],
      [title |-> "CV%", field |-> "CVAvg", type |-> "simpleAvg"],
      [title |-> "H", field |-> "HAvg", type |-> "simpleAvg"],
      [title |-> "A1", field |-> "B_A1Events", type |-> "perLength"],
      [title |-> "IPI", field |-> "", type |-> "customTotalIPI"],
      [title |-> "HS IPI", field |-> "", type |-> "customTotalHSIPI"]>>

\* the locale of the environment: day/month/year without padding
\* Date.prototype.toLocaleDateString()
ToLocaleDateString(date) ==
    IF ~date.valid THEN <<"I", "n", "v", "a", "l", "i", "d", " ", "D", "a", "t", "e">>
    ELSE NatToStr(date.d) \o <<"/">> \o NatToStr(date.m) \o <<"/">> \o NatToStr(date.y)

\* the mutant of WeekOf: the first cut point is off by one
WeekOfOffByOne(d) ==
    IF d < 7 THEN <<"W", "1">> ELSE IF d <= 14 THEN <<"W", "2">>
    ELSE IF d <= 21 THEN <<"W", "3">> ELSE IF d <= 28 THEN <<"W", "4">> ELSE <<"W", "5">>

\* d <= 7 ? 'W1' : d <= 14 ? 'W2' : d <= 21 ? 'W3' : d <= 28 ? 'W4' : 'W5'
WeekOf(d) ==
    IF d <= 7 THEN <<"W", "1">> ELSE IF d <= 14 THEN <<"W", "2">>
    ELSE IF d <= 21 THEN <<"W", "3">> ELSE IF d <= 28 THEN <<"W", "4">> ELSE <<"W", "5">>

\* the key of a record when the rows are grouped by date
DateKey(r, type, key0) ==
    LET date == NewDate(Str(JsString(Get(r, "ShiftStartTime"))))
        nan == <<"N", "a", "N">>
    IN  CASE type = "daily" -> ToLocaleDateString(date)
          [] type = "weekly" ->
                \* of an invalid date getDate() and getMonth() are NaN: no
                \* comparison holds and the week is W5
                IF date.valid THEN NatToStr(date.m) \o <<"-">> \o WeekOf(date.d)
                ELSE nan \o <<"-">> \o <<"W", "5">>
          [] type = "monthly" ->
                IF date.valid
                THEN NatToStr(date.y) \o <<"-">> \o PadStart(NatToStr(date.m), 2, "0")
                ELSE nan \o <<"-">> \o nan
          [] OTHER -> key0

\* the key of the group of a record
GroupKey(r, by, type) ==
    LET key0 == JsString(OrElse(Get(r, by), Str(NA)))
    IN  IF by = "ShiftStartTime" THEN DateKey(r, type, key0) ELSE key0

\* data.filter(...): the records that pass the value filter
FilteredData(records, field, values) ==
    SelectSeq(records,
              LAMBDA r : field = "" \/ Len(values) = 0
                         \/ Includes(values, JsString(OrElse(Get(r, field), Str(NA)))))

NewGroupAcc ==
    [totalLength |-> Num(0), refLen |-> Num(0), totalIPI |-> Num(0), totalHSIPI |-> Num(0),
     sums |-> EmptyMap, counts |-> EmptyMap]

\* typeof val === 'number' ? val : 0
NumberElseZero(v) == IF IsNumberType(v) THEN v ELSE Num(0)

\* map[key] || 0
GetOrZero(map, key) == OrElse(IF key \in DOMAIN map THEN map[key] ELSE Undef, Num(0))

RECURSIVE AddColumns(_, _, _)
\* REPORT_COLUMNS.forEach(col => ...) over the accumulator of a group, from column i
AddColumns(acc, r, i) ==
    IF i > Len(REPORT_COLUMNS) THEN acc
    ELSE LET col == REPORT_COLUMNS[i]
             val == Get(r, col.field)
         IN  IF col.field # "" /\ IsNumberType(val) /\ col.type = "perLength"
             THEN AddColumns([acc EXCEPT !.sums = Put(@, col.field, Add(GetOrZero(@, col.field), val))],
                             r, i + 1)
             ELSE IF col.field # "" /\ IsNumberType(val) /\ col.type = "simpleAvg"
             THEN AddColumns([acc EXCEPT
                                 !.sums = Put(@, col.field, Add(GetOrZero(@, col.field), val)),
                                 !.counts = Put(@, col.field, Add(GetOrZero(@, col.field), Num(1)))],
                             r, i + 1)
             ELSE AddColumns(acc, r, i + 1)

\* one pass of the body of filteredData.forEach over the record r; the keys
\* are kept in the order in which their groups were created
GroupStep(g, r, by, type) ==
    LET key == GroupKey(r, by, type)
        acc0 == IF key \in DOMAIN g.map THEN g.map[key] ELSE NewGroupAcc
        acc1 == [acc0 EXCEPT
                    !.totalLength = Add(@, NumberElseZero(Get(r, "YarnLength"))),
                    !.refLen = Add(@, NumberElseZero(Get(r, "IPRefLength"))),
                    !.totalIPI = Add(@, Add(Add(NumberElseZero(Get(r, "Thin50")),
                                                NumberElseZero(Get(r, "Thick50"))),
                                            NumberElseZero(Get(r, "Nep200")))),
                    !.totalHSIPI = Add(@, Add(Add(NumberElseZero(Get(r, "Thin40")),
                                                  NumberElseZero(Get(r, "Thick35"))),
                                              NumberElseZero(Get(r, "Nep140"))))]
    IN  [map |-> Put(g.map, key, AddColumns(acc1, r, 1)), order |-> SetAdd(g.order, key)]

RECURSIVE GroupFold(_, _, _, _)
GroupFold(g, records, by, type) ==
    IF records = <<>> THEN g
    ELSE GroupFold(GroupStep(g, Head(records), by, type), Tail(records), by, type)

\* the accumulators after the forEach loop of groupData
GroupAccumulators(records, by, type) ==
    GroupFold([map |-> EmptyMap, order |-> <<>>], records, by, type)

\* the days of the years before year, counted from year 0
DaysBeforeYear(year) == 365 * year + ((year + 3) \div 4)

RECURSIVE DaysBeforeMonth(_, _)
DaysBeforeMonth(year, month) ==
    IF month <= 1 THEN 0 ELSE DaysBeforeMonth(year, month - 1) + DaysInMonth(year, month - 1)

\* new Date(y, m - 1, d).getTime(), in days: a month beyond December runs
\* into the next year and a day beyond the month into the next month
DayNumber(year, month, day) ==
    LET y2 == year + ((month - 1) \div 12)
        m2 == ((month - 1) % 12) + 1
    IN  DaysBeforeYear(y2) + DaysBeforeMonth(y2, m2) + day

RECURSIVE Split(_, _)
\* s.split(c)
Split(s, c) ==
    LET i == IndexOf(s, c)
    IN  IF i = 0 THEN <<s>> ELSE <<SubSeq(s, 1, i - 1)>> \o Split(SubSeq(s, i + 1, Len(s)), c)

\* a - b for two numbers as the result of a comparator: NaN counts as 0
SignOf(x) == IF IsNaN(x) THEN 0 ELSE IF IsInfinite(x) THEN x.n ELSE x.n

\* the comparator of the rows of the search report
RowCompare(a, b, by, type) ==
    LET pa == Split(a, "/")
        pb == Split(b, "/")
        wa == Split(a, "-")
        wb == Split(b, "-")
        num(part) == StringToNumber(part)
    IN  IF by = "ShiftStartTime" /\ type = "daily" /\ Len(pa) = 3 /\ Len(pb) = 3
        THEN LET da == num(pa[1]) ma == num(pa[2]) ya == num(pa[3])
                 db == num(pb[1]) mb == num(pb[2]) yb == num(pb[3])
             IN  IF \A x \in {da, ma, ya, db, mb, yb} : IsFinite(x) /\ x.d = 1
                 THEN DayNumber(ya.n, ma.n, da.n) - DayNumber(yb.n, mb.n, db.n)
                 ELSE 0
        ELSE IF by = "ShiftStartTime" /\ type = "monthly" THEN LocaleCompare(a, b)
        ELSE IF by = "ShiftStartTime" /\ type = "weekly"
        THEN IF wa[1] # wb[1] THEN SignOf(Sub(num(wa[1]), num(wb[1])))
             ELSE LocaleCompare(IF Len(wa) > 1 THEN wa[2] ELSE <<>>,
                                IF Len(wb) > 1 THEN wb[2] ELSE <<>>)
        ELSE NaturalCompare(a, b)

RECURSIVE InsertRow(_, _, _, _)
InsertRow(s, x, by, type) ==
    IF s = <<>> THEN <<x>>
    ELSE IF RowCompare(x, Head(s), by, type) < 0 THEN <<x>> \o s
    ELSE <<Head(s)>> \o InsertRow(Tail(s), x, by, type)

RECURSIVE SortRowsFrom(_, _, _, _)
SortRowsFrom(done, rest, by, type) ==
    IF rest = <<>> THEN done
    ELSE SortRowsFrom(InsertRow(done, Head(rest), by, type), Tail(rest), by, type)

\* Object.entries(groups).sort(...): the keys in the order of the rows
SortKeys(keys, by, type) == SortRowsFrom(<<>>, keys, by, type)

\* the mutant of FinalizeColumn: every quotient is given with 2 decimals
FinalizeColumnTwoDecimals(acc, col) ==
    CASE col.type = "customTotalIPI" ->
            IF GtZero(acc.refLen) THEN Str(ToFixed(Div(acc.totalIPI, acc.refLen), 2))
            ELSE Str(NA)
      [] col.type = "customTotalHSIPI" ->
            IF GtZero(acc.refLen) THEN Str(ToFixed(Div(acc.totalHSIPI, acc.refLen), 2))
            ELSE Str(NA)
      [] col.type = "perLength" ->
            IF GtZero(acc.totalLength)
            THEN Str(ToFixed(Mul(Div(GetOrZero(acc.sums, col.field), acc.totalLength),
                                 Num(100)), 2))
            ELSE Str(NA)
      [] OTHER ->
            IF GtZero(GetOrZero(acc.counts, col.field))
            THEN Str(ToFixed(Div(GetOrZero(acc.sums, col.field),
                                 GetOrZero(acc.counts, col.field)), 2))
            ELSE Str(NA)

\* the finalizer of the search report: the cell of a column of a group
FinalizeColumn(acc, col) ==
    CASE col.type = "customTotalIPI" ->
            IF GtZero(acc.refLen) THEN Str(ToFixed(Div(acc.totalIPI, acc.refLen), 0))
            ELSE Str(NA)
      [] col.type = "customTotalHSIPI" ->
            IF GtZero(acc.refLen) THEN Str(ToFixed(Div(acc.totalHSIPI, acc.refLen), 0))
            ELSE Str(NA)
      [] col.type = "perLength" ->
            IF GtZero(acc.totalLength)
            THEN Str(ToFixed(Mul(Div(GetOrZero(acc.sums, col.field), acc.totalLength),
                                 Num(100)), 0))
            ELSE Str(NA)
      [] OTHER ->
            IF GtZero(GetOrZero(acc.counts, col.field))
            THEN Str(ToFixed(Div(GetOrZero(acc.sums, col.field),
                                 GetOrZero(acc.counts, col.field)), 2))
            ELSE Str(NA)

\* the rows that groupData returns from the accumulators
GroupRows(g, by, type) ==
    LET keys == SortKeys(g.order, by, type)
    IN  [i \in 1..Len(keys) |->
            [groupKey |-> keys[i],
             cells |-> [t \in {REPORT_COLUMNS[j].title : j \in 1..Len(REPORT_COLUMNS)} |->
                          LET col == CHOOSE c \in Range(REPORT_COLUMNS) : c.title = t
                          IN  FinalizeColumn(g.map[keys[i]], col)]]]

\* groupData() over the records that pass the filter
GroupData(records, by, type, field, values) ==
    GroupRows(GroupAccumulators(FilteredData(records, field, values), by, type), by, type)

----------------------------------------------------------------------------
(* The inputs of the model: the records that the backend may return (the   *)
(* values of a JSON document: a field is absent, null, a string or a       *)
(* number).  A record is a well-formed record (BaseRecord) with at most    *)
(* one field changed: dropped, null, non-numeric, or given another value.  *)

D1 == <<"2", "0", "2", "4", "-", "0", "1", "-", "0", "7">>
D2 == <<"2", "0", "2", "4", "-", "0", "1", "-", "0", "8">>
U1 == <<"U", "1">>
M2 == <<"M", "2">>
M10 == <<"M", "1", "0">>
Garbage == <<"a", "b", "c">>

BaseRecord ==
    [ShiftStartTime |-> Str(D2), MillUnit |-> Str(U1), ArticleName |-> Str(M2),
     ArticleNumber |-> Str(M2), LotID |-> Str(M2), MachineName |-> Str(M2),
     YarnLength |-> Num(1), IPRefLength |-> Num(1),
     Thin50 |-> Num(1), Thick50 |-> Num(0), Nep200 |-> Num(0),
     Thin40 |-> Num(1), CVAvg |-> Num(1), YarnFaults |-> Num(1),
     NSABlks |-> Num(1), LABlks |-> Num(0), B_A1Events |-> Num(1)]

\* the values tried for a dimension field
DimensionValues == {Undef, Str(M10)}

TimestampValues == {Null, Str(Garbage), Str(D1)}

\* the field that carries the label under a first column
DimensionField(firstColumn) ==
    CASE firstColumn = "unit" -> "MillUnit"
      [] firstColumn = "articlename" -> "ArticleName"
      [] firstColumn = "articlenumber" -> "ArticleNumber"
      [] firstColumn = "lotid" -> "LotID"
      [] OTHER -> "MachineName"

\* the field that feeds the sum of a parameter
MetricField(parameter) ==
    CASE parameter = "IPI" -> "Thin50"
      [] parameter = "HSIPI" -> "Thin40"
      [] parameter = "totalAlarms" -> "NSABlks"
      [] OTHER -> parameter

\* the field that feeds the denominator of a parameter of the trend tab
LengthField(group, parameter) ==
    IF group = "quality" THEN "IPRefLength" ELSE "YarnLength"

Variants(field, values) == {[BaseRecord EXCEPT ![field] = v] : v \in values}

\* the records tried under a selection of the trend tab: the fields that the
\* selection reads vary
TrendRecords(sel) ==
    {BaseRecord}
    \cup Variants("ShiftStartTime", TimestampValues)
    \cup Variants(DimensionField(sel.selectedFirstColumn), DimensionValues)
    \cup Variants("MachineName", {Str(M10)})
    \cup Variants(MetricField(sel.selectedParameter), {Undef, Str(Garbage), Num(MaxVal)})
    \cup Variants(LengthField(sel.selectedTrendGroup, sel.selectedParameter),
                  {Str(Garbage), Num(0)})

\* the records tried under a selection of the search tab
SearchRecords(by, field) ==
    {BaseRecord}
    \cup Variants("ShiftStartTime", TimestampValues)
    \cup Variants(by, DimensionValues)
    \cup (IF field = "" THEN {} ELSE Variants(field, DimensionValues))
    \cup Variants("YarnFaults", {Null, Str(Garbage), Num(MaxVal)})
    \cup Variants("CVAvg", {Str(Garbage)})
    \cup Variants("YarnLength", {Str(Garbage), Num(0)})
    \cup Variants("IPRefLength", {Num(0)})

\* the arrays of at most MaxRecords records
Arrays(records) == UNION {[1..n -> records] : n \in 0..MaxRecords}

Selection(unit, group, firstColumn, parameter, values) ==
    [selectedUnit |-> unit, selectedTrendGroup |-> group, selectedFirstColumn |-> firstColumn,
     selectedParameter |-> parameter, selectedTrendValues |-> values]

\* the state of the selects when TrendTab is mounted
InitialSelection == Selection(<<>>, "quality", "unit", DEFAULT_GROUP_PARAMETERS["quality"], <<>>)

\* the selections tried in the trend tab: the initial one with one select changed
TrendSelections ==
    {InitialSelection}
    \cup {[InitialSelection EXCEPT !.selectedFirstColumn = c] : c \in FIRST_COLUMN_OPTIONS}
    \cup {[InitialSelection EXCEPT !.selectedParameter = "CVAvg"]}
    \cup {[InitialSelection EXCEPT !.selectedTrendGroup = g,
                                   !.selectedParameter = DEFAULT_GROUP_PARAMETERS[g]] :
             g \in {"cuts", "alarms", "cmt"}}
    \cup {[InitialSelection EXCEPT !.selectedUnit = U1]}
    \cup {[InitialSelection EXCEPT !.selectedTrendValues = <<U1>>]}
    \cup {[InitialSelection EXCEPT !.selectedFirstColumn = "machinename",
                                   !.selectedTrendValues = <<M2, Unknown>>]}

SearchSelection(by, type, field, values) ==
    [groupBy |-> by, reportType |-> type, filterField |-> field, selectedFilterValues |-> values]

\* the state of the selects when SearchTab is mounted
InitialSearchSelection == SearchSelection("MillUnit", "daily", "", <<>>)

groupByOptions == {"MillUnit", "ArticleName", "ArticleNumber", "MachineName", "LotID",
                   "ShiftStartTime"}

\* the selections tried in the search tab: the initial one with one select changed
SearchSelections ==
    {InitialSearchSelection}
    \cup {[InitialSearchSelection EXCEPT !.groupBy = g] : g \in groupByOptions}
    \cup {[InitialSearchSelection EXCEPT !.groupBy = "ShiftStartTime", !.reportType = t] :
             t \in {"weekly", "monthly"}}
    \cup {[InitialSearchSelection EXCEPT !.filterField = "LotID",
                                         !.selectedFilterValues = <<NA, M10>>]}

----------------------------------------------------------------------------
(* The long-term report: the records fetched and the selections made in    *)
(* the mounted tab, then the aggregation of that tab.                      *)

NoResponse == [isNull |-> TRUE]
NoPass == [isNull |-> TRUE]

\* the selections of the current state
Sel == Selection(selectedUnit, selectedTrendGroup, selectedFirstColumn, selectedParameter,
                 selectedTrendValues)

\* no request was issued yet: issued and timers count the requests issued and
\* the timers started, last is the latest request (0 for none) with the
\* records it is to return, reset tells that Reset came after it, failed are
\* the requests that failed
NoRequests ==
    [issued |-> 0, timers |-> 0, last |-> 0, reset |-> FALSE, lastResult |-> <<>>, failed |-> {}]

TrendMounted(sel) ==
    /\ selectedUnit = sel.selectedUnit
    /\ selectedTrendGroup = sel.selectedTrendGroup
    /\ selectedFirstColumn = sel.selectedFirstColumn
    /\ selectedParameter = sel.selectedParameter
    /\ selectedTrendValues = sel.selectedTrendValues
    /\ trendResponse = NoResponse
    /\ trendMap = NoPass
    /\ trendLoading = FALSE
    /\ loading = FALSE /\ inflight = {} /\ timer = {}
    /\ fetchLog = NoRequests

SearchMounted(sel) ==
    /\ groupBy = sel.groupBy
    /\ reportType = sel.reportType
    /\ filterField = sel.filterField
    /\ selectedFilterValues = sel.selectedFilterValues
    /\ groups = NoPass
    /\ groupedRows = <<>>

NotRendered == [isNull |-> TRUE]

NoPdf == [isNull |-> TRUE]

ViewIdle ==
    response = NoResponse /\ hideEmptyLatest = TRUE /\ rendered = NotRendered /\ pdfBody = NoPdf

NoUnitData == [isNull |-> TRUE]
NotComputed == [isNull |-> TRUE]

\* the live report is not shown
NotMounted == [mounted |-> FALSE]

LiveIdle == unitData = NoUnitData /\ machineWiseData = NotComputed /\ liveReport = NotMounted

InitTrend ==
    /\ activeTab = "trend"
    /\ \E sel \in TrendSelections : TrendMounted(sel) /\ data \in Arrays(TrendRecords(sel))
    /\ SearchMounted(InitialSearchSelection)
    /\ ViewIdle
    /\ LiveIdle

InitSearch ==
    /\ activeTab = "search"
    /\ \E sel \in SearchSelections :
          /\ SearchMounted(sel)
          /\ data \in Arrays(SearchRecords(sel.groupBy, sel.filterField))
    /\ TrendMounted(InitialSelection)
    /\ ViewIdle
    /\ LiveIdle

\* calculateTrend(): try { ... setTrendResponse({...}) }
calculateTrend ==
    /\ activeTab = "trend"
    /\ LET acc == TrendAccumulators(data, Sel)
       IN  /\ trendMap' = acc.trendMap
           /\ trendResponse' = TrendResponseOf(acc, Sel)
    /\ UNCHANGED <<activeTab, data, selectedUnit, selectedTrendGroup, selectedFirstColumn,
                   selectedParameter, selectedTrendValues>>
    /\ trendLoading' = FALSE
    /\ UNCHANGED <<searchVars, viewVars, loading, inflight, timer, fetchLog, liveVars>>

\* const groupedRows = groupData(), on a render of SearchTab
groupData ==
    /\ activeTab = "search"
    /\ groups' = GroupAccumulators(FilteredData(data, filterField, selectedFilterValues),
                                   groupBy, reportType).map
    /\ groupedRows' = GroupData(data, groupBy, reportType, filterField, selectedFilterValues)
    /\ UNCHANGED <<activeTab, data, groupBy, reportType, filterField, selectedFilterValues>>
    /\ UNCHANGED <<trendVars, viewVars, fetchVars, liveVars>>

\* the search report of a render of SearchTab over the records
SearchRendered(records, by, type, field, values) ==
    /\ groupBy' = by
    /\ reportType' = type
    /\ filterField' = field
    /\ selectedFilterValues' = values
    /\ groups' = GroupAccumulators(FilteredData(records, field, values), by, type).map
    /\ groupedRows' = GroupData(records, by, type, field, values)

Init == InitTrend \/ InitSearch

Next == calculateTrend \/ groupData

Spec == Init /\ [][Next]_vars

----------------------------------------------------------------------------
(* The trend tab over arrays of records that one date and one label may    *)
(* share, with alarm counts up to 2^53: the sums depend on the order.      *)

OrderRecords ==
    {BaseRecord}
    \cup Variants("NSABlks", {Big(1, 0)})
    \cup Variants("ShiftStartTime", {Str(D1)})
    \cup Variants("MachineName", {Str(M10)})

OrderSelections ==
    {InitialSelection}
    \cup {[InitialSelection EXCEPT !.selectedTrendGroup = "alarms", !.selectedParameter = p] :
             p \in {"totalAlarms", "NSABlks"}}

InitOrder ==
    /\ activeTab = "trend"
    /\ \E sel \in OrderSelections : TrendMounted(sel)
    /\ data \in UNION {[1..n -> OrderRecords] : n \in 0..MaxOrderRecords}
    /\ SearchMounted(InitialSearchSelection)
    /\ ViewIdle
    /\ LiveIdle

NextOrder == calculateTrend

SpecOrder == InitOrder /\ [][NextOrder]_vars

----------------------------------------------------------------------------
(* TrendView (live-report/TrendView.tsx, and the variant of it that reads  *)
(* response.allKeys).  A response is {data, labels, dates?, allKeys?,      *)
(* reportType?, drillDownData}; a row of data is {date, cells} where cells *)
(* holds the properties of the row other than date.                        *)

\* dataSet.find(d => d.date === key)?.[label]
CellAt(dataSet, key, label) ==
    LET hits == {i \in 1..Len(dataSet) : dataSet[i].date = key}
    IN  IF hits = {} THEN Undef
        ELSE LET row == dataSet[CHOOSE i \in hits : \A j \in hits : i <= j]
             IN  IF label.s \in DOMAIN row.cells THEN row.cells[label.s] ELSE Undef

RECURSIVE Distinct(_)
\* Array.from(new Set(arr))
Distinct(arr) ==
    IF arr = <<>> THEN <<>>
    ELSE LET front == Distinct(SubSeq(arr, 1, Len(arr) - 1))
         IN  SetAdd(front, arr[Len(arr)])

\* response.dates || Array.from(new Set(response.data.map(d => d.date))).sort()
ResponseDates(resp) ==
    IF "dates" \in DOMAIN resp THEN resp.dates
    ELSE ArraySort(Distinct([i \in 1..Len(resp.data) |-> resp.data[i].date]))

\* response.allKeys || dates
ResponseAllKeys(resp) == IF "allKeys" \in DOMAIN resp THEN resp.allKeys ELSE ResponseDates(resp)

\* dates[dates.length - 1]
LatestDate(dates) == IF dates = <<>> THEN Undef ELSE dates[Len(dates)]

\* val !== undefined && val !== null && val !== "0.00" && val !== 0
NotEmptyValue(val) ==
    /\ val # Undef /\ val # Null
    /\ val # Str(<<"0", ".", "0", "0">>)
    /\ ~(IsNumberType(val) /\ IsZero(val))

\* response.labels.filter(...) of TrendView.tsx
FilteredLabels(resp, hide) ==
    SelectSeq(resp.labels,
              LAMBDA label : ~hide \/ NotEmptyValue(CellAt(resp.data,
                                                           LatestDate(ResponseDates(resp)), label)))

\* response.labels.filter(...) of the variant: all entries of the latest date
FilteredLabelsAllKeys(resp, hide) ==
    LET latestDate == JsString(LatestDate(ResponseDates(resp)))
        latestEntries == SelectSeq(resp.data, LAMBDA d : StartsWith(d.date.s, latestDate))
    IN  SelectSeq(resp.labels,
                  LAMBDA label : ~hide \/ \E i \in 1..Len(latestEntries) :
                      NotEmptyValue(IF label.s \in DOMAIN latestEntries[i].cells
                                    THEN latestEntries[i].cells[label.s] ELSE Undef))

\* the mutant of OldestVal: the value at the first bucket, defined or not
OldestValOfFirstBucket(dataSet, keys, label) ==
    IF keys = <<>> THEN Undef ELSE CellAt(dataSet, Head(keys), label)

RECURSIVE OldestVal(_, _, _)
\* for (const date of dates) { ... if (val !== undefined && val !== null) ... break }
OldestVal(dataSet, keys, label) ==
    IF keys = <<>> THEN Undef
    ELSE LET val == CellAt(dataSet, Head(keys), label)
         IN  IF val # Undef /\ val # Null THEN val ELSE OldestVal(dataSet, Tail(keys), label)

\* latestDate ? dataSet.find(d => d.date === latestDate)?.[label] : undefined
LatestVal(dataSet, keys, label) ==
    IF keys = <<>> \/ ~Truthy(keys[Len(keys)]) THEN Undef
    ELSE CellAt(dataSet, keys[Len(keys)], label)

Dash == <<"-">>
New == <<"N", "e", "w">>

\* the text of the percent-change cell
DiffPercent(oldestVal, latestVal) ==
    IF oldestVal # Undef /\ latestVal # Undef
    THEN LET ov == ToNumber(oldestVal)
             lv == ToNumber(latestVal)
         IN  IF ~IsZero(ov) /\ ~IsNaN(ov) /\ ~IsNaN(lv)
             THEN LET diff == Mul(Div(Sub(lv, ov), ov), Num(100))
                  IN  (IF GtZero(diff) THEN <<"+">> ELSE <<>>) \o ToFixed(diff, 1) \o <<"%">>
             ELSE IF IsZero(ov) /\ ~IsZero(lv) THEN New
             ELSE Dash
    ELSE Dash

\* renderRows(label, idx, isSubRow, parentLabel) over the bucket list keys:
\* the cells of the row and its percent-change cell
RenderRow(resp, keys, label, isSubRow, parentLabel) ==
    LET dataSet == IF isSubRow /\ "drillDownData" \in DOMAIN resp
                   THEN resp.drillDownData[parentLabel.s].data ELSE resp.data
    IN  [label |-> label, isSubRow |-> isSubRow, parentLabel |-> parentLabel,
         cells |-> [i \in 1..Len(keys) |->
                      LET value == CellAt(dataSet, keys[i], label)
                      IN  IF value # Undef THEN value ELSE Str(Dash)],
         diffPercent |-> DiffPercent(OldestVal(dataSet, keys, label),
                                     LatestVal(dataSet, keys, label))]

RECURSIVE RenderLabels(_, _, _)
\* filteredLabels.map((label, idx) => renderRows(label, idx)): every row is
\* followed by the rows of its drill-down table (the label is expanded)
RenderLabels(resp, keys, labels) ==
    IF labels = <<>> THEN <<>>
    ELSE LET label == Head(labels)
             machines == IF "drillDownData" \in DOMAIN resp
                            /\ label.s \in DOMAIN resp.drillDownData
                         THEN resp.drillDownData[label.s].labels ELSE <<>>
         IN  <<RenderRow(resp, keys, label, FALSE, Undef)>>
             \o [i \in 1..Len(machines) |-> RenderRow(resp, keys, machines[i], TRUE, label)]
             \o RenderLabels(resp, keys, Tail(labels))

NoDataFound == [placeholder |-> "No Data Found"]

\* what TrendView.tsx renders for a response
RenderTrendView(resp, hide) ==
    IF resp.data = <<>> THEN NoDataFound
    ELSE LET dates == ResponseDates(resp)
         IN  [columns |-> dates,
              rows |-> RenderLabels(resp, dates, FilteredLabels(resp, hide))]

\* what the variant of TrendView renders for a response
RenderTrendViewAllKeys(resp, hide) ==
    IF resp.data = <<>> THEN NoDataFound
    ELSE LET allKeys == ResponseAllKeys(resp)
         IN  [columns |-> allKeys,
              rows |-> RenderLabels(resp, allKeys, FilteredLabelsAllKeys(resp, hide))]

----------------------------------------------------------------------------
(* The responses that TrendView is given: one label and one machine under  *)
(* it, over at most MaxBuckets buckets that are days or (day, shift) pairs.*)

\* the i-th day
DayKey(i) == <<"2", "0", "2", "4", "-", "0", "1", "-", "0">> \o NatToStr(i)

\* the i-th (day, shift) pair: two shifts a day
ShiftKey(i) == DayKey((i + 1) \div 2) \o <<"_">> \o (IF i % 2 = 1 THEN <<"A">> ELSE <<"B">>)

\* the values of a cell of the label: none, or a string or a number
MainCellValues ==
    {Undef, Str(<<"0", ".", "0", "0">>), Str(<<"1", "0", ".", "0", "0">>),
     Str(<<"1", "5", ".", "0", "0">>), Num(5)}

\* the values of a cell of the machine
SubCellValues == {Undef, Str(<<"1", "5", ".", "0", "0">>)}

\* the rows of a table: a bucket without a value has no row
TableRows(keys, values, label) ==
    LET present == SelectSeq([i \in 1..Len(keys) |-> i], LAMBDA i : values[i] # Undef)
    IN  [j \in 1..Len(present) |->
            [date |-> Str(keys[present[j]]), cells |-> (label :> values[present[j]])]]

\* the response of a report over the first n buckets; kind is "day" (dates
\* are given), "plain" (dates are not given) or "shift" (allKeys are given)
TrendViewResponse(n, kind, main, sub) ==
    LET keys == [i \in 1..n |-> IF kind = "shift" THEN ShiftKey(i) ELSE DayKey(i)]
        rows == TableRows(keys, main, U1)
        drill == (U1 :> [labels |-> <<Str(M2)>>, data |-> TableRows(keys, sub, M2)])
    IN  CASE kind = "plain" ->
                [data |-> rows, labels |-> <<Str(U1)>>, drillDownData |-> drill]
          [] kind = "day" ->
                [data |-> rows, labels |-> <<Str(U1)>>, drillDownData |-> drill,
                 dates |-> [i \in 1..n |-> Str(keys[i])]]
          [] OTHER ->
                [data |-> rows, labels |-> <<Str(U1)>>, drillDownData |-> drill,
                 dates |-> Distinct([i \in 1..n |-> Str(DayKey((i + 1) \div 2))]),
                 allKeys |-> [i \in 1..n |-> Str(keys[i])],
                 reportType |-> "shift"]

InitView ==
    /\ activeTab = "trend"
    /\ data = <<>>
    /\ TrendMounted(InitialSelection)
    /\ SearchMounted(InitialSearchSelection)
    /\ hideEmptyLatest \in BOOLEAN
    /\ \E n \in 0..MaxBuckets, kind \in {"plain", "day", "shift"} :
          \E main \in [1..n -> MainCellValues], sub \in [1..n -> SubCellValues] :
              response = TrendViewResponse(n, kind, main, sub)
    /\ rendered = NotRendered
    /\ pdfBody = NoPdf
    /\ LiveIdle

\* a render of TrendView.tsx; it is given the reports over days
renderRows ==
    /\ "allKeys" \notin DOMAIN response
    /\ rendered' = RenderTrendView(response, hideEmptyLatest)
    /\ UNCHANGED <<activeTab, data, trendVars, searchVars, response, hideEmptyLatest, pdfBody,
                   fetchVars, liveVars>>

\* a render of the variant of TrendView that reads response.allKeys
renderRowsAllKeys ==
    /\ rendered' = RenderTrendViewAllKeys(response, hideEmptyLatest)
    /\ UNCHANGED <<activeTab, data, trendVars, searchVars, response, hideEmptyLatest, pdfBody,
                   fetchVars, liveVars>>

NextView == renderRows \/ renderRowsAllKeys

SpecView == InitView /\ [][NextView]_vars

----------------------------------------------------------------------------
(* The search tab grouped by week over the days of a month.                *)

\* the date string of a day of 2024
DateString(month, day) ==
    <<"2", "0", "2", "4", "-">> \o PadStart(NatToStr(month), 2, "0") \o <<"-">>
    \o PadStart(NatToStr(day), 2, "0")

\* the timestamps tried: every day of January and the 7th of February
WeeklyTimestamps ==
    {Str(DateString(1, day)) : day \in 1..DaysInMonth(2024, 1)} \cup {Str(DateString(2, 7))}

InitWeekly ==
    /\ activeTab = "search"
    /\ SearchMounted(SearchSelection("ShiftStartTime", "weekly", "", <<>>))
    /\ data \in UNION {[1..n -> Variants("ShiftStartTime", WeeklyTimestamps)] :
                          n \in 1..MaxWeeklyRecords}
    /\ TrendMounted(InitialSelection)
    /\ ViewIdle
    /\ LiveIdle

NextWeekly == groupData

SpecWeekly == InitWeekly /\ [][NextWeekly]_vars

----------------------------------------------------------------------------
(* The order of the time buckets: records of days of several months in     *)
(* the trend tab and in the search report of each report type.             *)

MaxBucketRecords == 3

\* the timestamps tried: days of one and of two digits, of several months
BucketTimestamps ==
    {Str(DateString(1, 8)), Str(DateString(1, 10)), Str(DateString(2, 1)),
     Str(DateString(10, 1)), Str(DateString(12, 31))}

BucketArrays ==
    UNION {[1..n -> Variants("ShiftStartTime", BucketTimestamps)] : n \in 0..MaxBucketRecords}

InitBuckets ==
    /\ data \in BucketArrays
    /\ ViewIdle
    /\ LiveIdle
    /\ \/ /\ activeTab = "trend"
          /\ TrendMounted(InitialSelection)
          /\ SearchMounted(InitialSearchSelection)
       \/ /\ activeTab = "search"
          /\ \E type \in {"daily", "weekly", "monthly"} :
                SearchMounted(SearchSelection("ShiftStartTime", type, "", <<>>))
          /\ TrendMounted(InitialSelection)

NextBuckets == calculateTrend \/ groupData

SpecBuckets == InitBuckets /\ [][NextBuckets]_vars

----------------------------------------------------------------------------
(* The finalizers: records with every metric of the policies set, of one   *)
(* day and one unit, under each metric group of the trend tab and in the   *)
(* search report.                                                          *)

MaxPolicyRecords == 2

\* a record of unit U1 on 2024-01-01 with the given faults, over 1000 units of yarn
PolicyRecord(faults) ==
    [ShiftStartTime |-> Str(DateString(1, 1)), MillUnit |-> Str(U1), ArticleName |-> Str(M2),
     ArticleNumber |-> Str(M2), LotID |-> Str(M2), MachineName |-> Str(M2),
     YarnFaults |-> Num(faults), YarnLength |-> Num(1000), IPRefLength |-> Num(4),
     Thin50 |-> Num(1), Thick50 |-> Num(2), Nep200 |-> Num(4),
     Thin40 |-> Num(8), Thick35 |-> Num(16), Nep140 |-> Num(32),
     CVAvg |-> Frac(3, 2), HAvg |-> Num(5), NSABlks |-> Num(1), LABlks |-> Num(2),
     B_A1Events |-> Num(3)]

\* the records tried: two of the same machine, one of another machine and
\* one without lengths and without CVAvg
PolicyRecords ==
    {PolicyRecord(10), PolicyRecord(20),
     [PolicyRecord(10) EXCEPT !.MachineName = Str(M10), !.Thin50 = Num(3), !.CVAvg = Num(2),
                              !.IPRefLength = Num(3)],
     [PolicyRecord(20) EXCEPT !.YarnLength = Num(0), !.IPRefLength = Num(0), !.CVAvg = Null]}

\* the selections tried: parameters of every metric group, by unit and by machine
PolicySelections ==
    {Selection(<<>>, gp[1], c, gp[2], <<>>) :
        gp \in {<<"quality", "IPI">>, <<"quality", "HSIPI">>, <<"quality", "CVAvg">>,
                <<"quality", "HAvg">>, <<"quality", "Thin50">>, <<"cuts", "YarnFaults">>,
                <<"cmt", "B_A1Events">>, <<"alarms", "totalAlarms">>, <<"alarms", "NSABlks">>},
        c \in {"unit", "machinename"}}

InitPolicy ==
    /\ data \in UNION {[1..n -> PolicyRecords] : n \in 0..MaxPolicyRecords}
    /\ ViewIdle
    /\ LiveIdle
    /\ \/ /\ activeTab = "trend"
          /\ \E sel \in PolicySelections : TrendMounted(sel)
          /\ SearchMounted(InitialSearchSelection)
       \/ /\ activeTab = "search"
          /\ \E by \in {"MillUnit", "MachineName"} :
                SearchMounted(SearchSelection(by, "daily", "", <<>>))
          /\ TrendMounted(InitialSelection)

NextPolicy == calculateTrend \/ groupData

SpecPolicy == InitPolicy /\ [][NextPolicy]_vars

----------------------------------------------------------------------------
(* The trend table of the long-term report: TrendTab gives its response    *)
(* and its hideEmptyLatest flag to TrendView.  Records of two days and two *)
(* machines whose metrics are 0 or not.                                    *)

MaxShownRecords == 2

\* a record whose metrics are all 0
ZeroRecord ==
    [BaseRecord EXCEPT !.Thin50 = Num(0), !.Thin40 = Num(0), !.CVAvg = Num(0),
                       !.YarnFaults = Num(0), !.NSABlks = Num(0), !.B_A1Events = Num(0)]

ShownRecords ==
    {[r EXCEPT !.ShiftStartTime = Str(date), !.MachineName = Str(machine)] :
        r \in {BaseRecord, ZeroRecord}, date \in {D1, D2}, machine \in {M2, M10}}

\* the selections tried: the default parameter of every group, by machine
ShownSelections ==
    {Selection(<<>>, g, "machinename", DEFAULT_GROUP_PARAMETERS[g], <<>>) :
        g \in {"quality", "cuts", "alarms", "cmt"}}

InitShown ==
    /\ activeTab = "trend"
    /\ data \in UNION {[1..n -> ShownRecords] : n \in 0..MaxShownRecords}
    /\ \E sel \in ShownSelections : TrendMounted(sel)
    /\ SearchMounted(InitialSearchSelection)
    /\ response = NoResponse
    /\ hideEmptyLatest \in BOOLEAN
    /\ rendered = NotRendered
    /\ pdfBody = NoPdf
    /\ LiveIdle

\* <TrendView response={trendResponse} hideEmptyLatest={hideEmptyLatest} />
renderTrendView ==
    /\ trendResponse # NoResponse
    /\ response' = trendResponse
    /\ rendered' = RenderTrendView(trendResponse, hideEmptyLatest)
    /\ UNCHANGED <<activeTab, data, trendVars, searchVars, hideEmptyLatest, pdfBody,
                   fetchVars, liveVars>>

\* onClick={() => setHideEmptyLatest(!hideEmptyLatest)}
\* the table is rendered again with the new flag
setHideEmptyLatest ==
    /\ hideEmptyLatest' = ~hideEmptyLatest
    /\ rendered' = IF response = NoResponse THEN rendered
                   ELSE RenderTrendView(response, ~hideEmptyLatest)
    /\ UNCHANGED <<activeTab, data, trendVars, searchVars, response, pdfBody, fetchVars,
                   liveVars>>

NextShown == calculateTrend \/ renderTrendView \/ setHideEmptyLatest

SpecShown == InitShown /\ [][NextShown]_vars

----------------------------------------------------------------------------
(* Show Data in the trend tab: handleShowData starts a fetch (when both    *)
(* dates are set) and a timer of 500 ms that runs the calculateTrend of    *)
(* the render of the click; LongTermReport.fetchData sets data and         *)
(* loading when the fetch returns, and the effect on [data] of TrendTab    *)
(* recalculates when there is a response and loading is false.             *)

\* the requests issued and the timers started in a behaviour
MaxRequests == 3
MaxTimers == 3

\* the record sets that the backend returns
FetchResults == {<<>>, <<BaseRecord>>, <<[BaseRecord EXCEPT !.ShiftStartTime = Str(D1)]>>}

InitShowData ==
    /\ activeTab = "trend"
    /\ data \in FetchResults
    /\ TrendMounted(InitialSelection)
    /\ SearchMounted(InitialSearchSelection)
    /\ ViewIdle
    /\ LiveIdle

\* the log after a request that is to return result was issued
Requested(log, result) ==
    [log EXCEPT !.issued = @ + 1, !.last = log.issued + 1, !.reset = FALSE,
                !.lastResult = result]

\* fetchData(filters): setLoading(true), then the request is under way
FetchData(result) ==
    /\ fetchLog.issued < MaxRequests
    /\ loading' = TRUE
    /\ inflight' = inflight \cup {[id |-> fetchLog.issued + 1, result |-> result]}

\* handleShowData(), by a click on the button Show Data (disabled while
\* trendLoading || loading); the dates are set or not
handleShowData ==
    /\ activeTab = "trend" /\ ~trendLoading /\ ~loading
    /\ fetchLog.timers < MaxTimers
    /\ \/ \E result \in FetchResults :
             /\ FetchData(result)
             /\ fetchLog' = [Requested(fetchLog, result) EXCEPT !.timers = @ + 1]
       \/ /\ UNCHANGED <<loading, inflight>>
          /\ fetchLog' = [fetchLog EXCEPT !.timers = @ + 1]
    /\ trendLoading' = TRUE
    /\ timer' = timer \cup {[id |-> fetchLog.timers + 1, data |-> data, sel |-> Sel]}
    /\ UNCHANGED <<activeTab, data, trendVars, searchVars, viewVars, liveVars>>

\* fetchData: setData(result), then setLoading(false) in finally; the two
\* updates are rendered together or one after the other, and the effect on
\* [data] of TrendTab runs with the loading of the render in which data
\* changed; SearchTab computes its report again
fetchSucceeds(f) ==
    /\ f \in inflight
    /\ data' = f.result
    /\ loading' = FALSE
    /\ inflight' = inflight \ {f}
    /\ \E batched \in BOOLEAN :
          IF activeTab = "trend" /\ trendResponse # NoResponse /\ batched
          THEN /\ trendMap' = TrendAccumulators(f.result, Sel).trendMap
               /\ trendResponse' = CalculateTrend(f.result, Sel)
               /\ trendLoading' = FALSE
          ELSE UNCHANGED <<trendMap, trendResponse, trendLoading>>
    /\ IF activeTab = "search"
       THEN SearchRendered(f.result, groupBy, reportType, filterField, selectedFilterValues)
       ELSE UNCHANGED searchVars
    /\ UNCHANGED <<activeTab, selectedUnit, selectedTrendGroup, selectedFirstColumn,
                   selectedParameter, selectedTrendValues, viewVars, timer, fetchLog,
                   liveVars>>

\* fetchData: the request fails, catch and finally
fetchFails(f) ==
    /\ f \in inflight
    /\ loading' = FALSE
    /\ inflight' = inflight \ {f}
    /\ fetchLog' = [fetchLog EXCEPT !.failed = @ \cup {f.id}]
    /\ UNCHANGED <<activeTab, data, trendVars, searchVars, viewVars, trendLoading, timer,
                   liveVars>>

\* setTimeout(() => { calculateTrend(); }, 500): the calculateTrend of the
\* render of the click, over the data of that render
timerFires(t) ==
    /\ t \in timer
    /\ trendMap' = TrendAccumulators(t.data, t.sel).trendMap
    /\ trendResponse' = CalculateTrend(t.data, t.sel)
    /\ trendLoading' = FALSE
    /\ timer' = timer \ {t}
    /\ UNCHANGED <<activeTab, data, selectedUnit, selectedTrendGroup, selectedFirstColumn,
                   selectedParameter, selectedTrendValues, searchVars, viewVars, loading,
                   inflight, fetchLog, liveVars>>

NextShowData ==
    \/ handleShowData
    \/ \E f \in inflight : fetchSucceeds(f)
    \/ \E f \in inflight : fetchFails(f)
    \/ \E t \in timer : timerFires(t)

SpecShowData == InitShowData /\ [][NextShowData]_vars

----------------------------------------------------------------------------
(* getMachineWiseData (live-report/utils.ts): the rollup by machine of the *)
(* live report of a unit.  unitData is {articles?}, an article is          *)
(* {articleNumber, machines?} and a machine entry holds machineName, the   *)
(* count fields, totalAlarms and alarmBreakdown?.  The result is the       *)
(* sorted rows, or the exception that the call throws.                     *)

MaxArticles == 2
MaxMachines == 2

countFields ==
    <<"YarnFaults", "YarnJoints", "YarnBreaks", "NCuts", "SCuts", "LCuts", "TCuts", "FDCuts",
      "PPCuts">>

\* a + b: the concatenation when an operand is a string, the sum otherwise
JsPlus(a, b) ==
    IF a.t = "string" \/ b.t = "string" THEN Str(JsString(a) \o JsString(b))
    ELSE Add(ToNumber(a), ToNumber(b))

\* s.slice(-2)
SliceLastTwo(s) == SubSeq(s, IF Len(s) > 2 THEN Len(s) - 1 ELSE 1, Len(s))

\* art.machines?.forEach: the machine entries of an article
MachinesOf(art) == IF "machines" \in DOMAIN art THEN art.machines ELSE <<>>

RECURSIVE MachineEntries(_)
\* the passes of the two nested forEach loops, in their order
MachineEntries(articles) ==
    IF articles = <<>> THEN <<>>
    ELSE [i \in 1..Len(MachinesOf(Head(articles))) |->
             [art |-> Head(articles), mach |-> MachinesOf(Head(articles))[i]]]
         \o MachineEntries(Tail(articles))

\* unitData.articles?.forEach
EntriesOf(unit) == IF "articles" \in DOMAIN unit THEN MachineEntries(unit.articles) ELSE <<>>

\* mach.machineName.slice(-2) throws unless machineName is a string
SliceThrows(mach) == Get(mach, "machineName").t # "string"

NewMachineRow(machineName, displayMachineName) ==
    [machineName |-> machineName, displayMachineName |-> displayMachineName,
     counts |-> [f \in {countFields[i] : i \in 1..Len(countFields)} |-> Num(0)],
     totalAlarms |-> Num(0), alarmBreakdown |-> EmptyMap, articles |-> <<>>]

\* Object.entries(mach.alarmBreakdown).forEach(([key, val]) => ...)
AddAlarmBreakdown(breakdown, mach) ==
    IF "alarmBreakdown" \notin DOMAIN mach THEN breakdown
    ELSE LET added == mach.alarmBreakdown
         IN  [key \in DOMAIN breakdown \cup DOMAIN added |->
                 IF key \in DOMAIN added
                 THEN JsPlus(OrElse(IF key \in DOMAIN breakdown THEN breakdown[key] ELSE Undef,
                                    Num(0)),
                             added[key])
                 ELSE breakdown[key]]

\* one pass of the inner forEach over the entry e of an article
MachineStep(map, e) ==
    LET name == Get(e.mach, "machineName").s
        displayMachineName == SliceLastTwo(name)
        m == IF name \in DOMAIN map.rows THEN map.rows[name]
             ELSE NewMachineRow(name, displayMachineName)
        row == [m EXCEPT
                   !.counts = [f \in DOMAIN @ |->
                                  Add(@[f], OrElse(ToNumber(Get(e.mach, f)), Num(0)))],
                   !.totalAlarms = JsPlus(@, OrElse(Get(e.mach, "totalAlarms"), Num(0))),
                   !.alarmBreakdown = AddAlarmBreakdown(@, e.mach),
                   !.articles = Append(@, [articleNumber |-> Get(e.art, "articleNumber"),
                                           displayMachineName |-> displayMachineName,
                                           mach |-> e.mach])]
    IN  [rows |-> Put(map.rows, name, row), order |-> SetAdd(map.order, name)]

RECURSIVE MachineFold(_, _)
MachineFold(map, entries) ==
    IF entries = <<>> THEN map
    ELSE MachineFold(MachineStep(map, Head(entries)), Tail(entries))

Thrown == [threw |-> TRUE, rows |-> <<>>]

\* getMachineWiseData(unitData): Object.values(machineMap).sort(...)
GetMachineWiseData(unit) ==
    LET entries == EntriesOf(unit)
    IN  IF \E i \in 1..Len(entries) : SliceThrows(entries[i].mach) THEN Thrown
        ELSE LET map == MachineFold([rows |-> EmptyMap, order |-> <<>>], entries)
                 sorted == SortKeys(map.order, "machineName", "")
             IN  [threw |-> FALSE, rows |-> [i \in 1..Len(sorted) |-> map.rows[sorted[i]]]]

\* a machine entry as the backend gives it
BaseMachine ==
    [machineName |-> Str(M2), YarnFaults |-> Num(1), YarnJoints |-> Num(1),
     YarnBreaks |-> Num(0), NCuts |-> Num(1), SCuts |-> Num(0), LCuts |-> Num(0),
     TCuts |-> Num(0), FDCuts |-> Num(0), PPCuts |-> Num(0), totalAlarms |-> Num(2),
     alarmBreakdown |-> ("NSABlks" :> Num(2))]

\* the machine entries tried: the base entry with at most one field changed
\* (another machine, or a field absent, null or not a number)
MachineVariants ==
    {BaseMachine}
    \cup {[BaseMachine EXCEPT !.machineName = v] : v \in {Str(M10), Undef, Null}}
    \cup {[BaseMachine EXCEPT !.YarnFaults = v] : v \in {Undef, Str(Garbage)}}
    \cup {[BaseMachine EXCEPT !.totalAlarms = v] : v \in {Undef, Str(<<"3">>)}}
    \cup {[BaseMachine EXCEPT !.alarmBreakdown = ("NSABlks" :> Str(Garbage))]}
    \cup {[f \in DOMAIN BaseMachine \ {"alarmBreakdown"} |-> BaseMachine[f]]}

\* the articles of a live report
LiveArticles ==
    {[articleNumber |-> Str(M2)]}
    \cup {[articleNumber |-> Str(M2), machines |-> machines] :
             machines \in UNION {[1..n -> MachineVariants] : n \in 0..MaxMachines}}

\* the live reports of a unit
LiveUnits ==
    {[unit |-> Str(U1)]}
    \cup {[unit |-> Str(U1), articles |-> articles] :
             articles \in UNION {[1..n -> LiveArticles] : n \in 0..MaxArticles}}

\* the live report of a unit is shown
InitLive ==
    /\ activeTab = "search"
    /\ data = <<>>
    /\ TrendMounted(InitialSelection)
    /\ SearchMounted(InitialSearchSelection)
    /\ ViewIdle
    /\ unitData \in LiveUnits
    /\ machineWiseData = NotComputed
    /\ liveReport = NotMounted

\* const machineWise = getMachineWiseData(unitData), on a render of the live view
getMachineWiseData ==
    /\ unitData # NoUnitData
    /\ machineWiseData' = GetMachineWiseData(unitData)
    /\ UNCHANGED <<activeTab, data, trendVars, searchVars, viewVars, fetchVars, unitData,
                   liveReport>>

\* the three aggregations, each over the inputs of its view
InitPipeline == InitTrend \/ InitSearch \/ InitLive

NextPipeline == calculateTrend \/ groupData \/ getMachineWiseData

SpecPipeline == InitPipeline /\ [][NextPipeline]_vars

----------------------------------------------------------------------------
(* The sub-accumulators of the machines: records of one unit and of two    *)
(* days whose machine is M2, M10 or absent and whose alarm count is 1 or   *)
(* 2^53, shown by unit.                                                    *)

MaxMirrorRecords == 3

MirrorRecords ==
    {BaseRecord}
    \cup Variants("NSABlks", {Big(1, 0)})
    \cup Variants("MachineName", {Str(M10), Undef})
    \cup Variants("ShiftStartTime", {Str(D1)})

MirrorSelections ==
    {Selection(<<>>, "alarms", "unit", p, <<>>) : p \in {"totalAlarms", "NSABlks"}}
    \cup {Selection(<<>>, "quality", "unit", "CVAvg", <<>>)}

InitMirror ==
    /\ activeTab = "trend"
    /\ \E sel \in MirrorSelections : TrendMounted(sel)
    /\ data \in UNION {[1..n -> MirrorRecords] : n \in 0..MaxMirrorRecords}
    /\ SearchMounted(InitialSearchSelection)
    /\ ViewIdle
    /\ LiveIdle

NextMirror == calculateTrend

SpecMirror == InitMirror /\ [][NextMirror]_vars

----------------------------------------------------------------------------
(* The cells of the trend table: records of two days, one of them with a   *)
(* timestamp that does not parse, whose machine is M2, M10 or one called   *)
(* "date", shown by unit or by machine, all of them or those of M2.        *)

MaxCellRecords == 3

CellRecords ==
    {BaseRecord}
    \cup Variants("MachineName", {Str(M10), Str(DateProperty)})
    \cup Variants("ShiftStartTime", {Str(D1), Str(Garbage)})

CellSelections ==
    {Selection(<<>>, "quality", c, "IPI", <<>>) : c \in {"unit", "machinename"}}
    \cup {Selection(<<>>, "quality", "machinename", "IPI", <<M2>>)}

InitCells ==
    /\ activeTab = "trend"
    /\ \E sel \in CellSelections : TrendMounted(sel)
    /\ data \in UNION {[1..n -> CellRecords] : n \in 0..MaxCellRecords}
    /\ SearchMounted(InitialSearchSelection)
    /\ response = NoResponse
    /\ hideEmptyLatest = FALSE
    /\ rendered = NotRendered
    /\ pdfBody = NoPdf
    /\ LiveIdle

NextCells == calculateTrend \/ renderTrendView

SpecCells == InitCells /\ [][NextCells]_vars

----------------------------------------------------------------------------
(* The tabs and the selects of the long-term report.  LongTermReport       *)
(* renders SearchTab or TrendTab by activeTab, so a change of tab mounts   *)
(* the other tab with its initial state; SearchTab computes groupData() on *)
(* every render.  The variables of the tab that is not mounted keep what   *)
(* it showed last.                                                         *)

\* onClick={() => setActiveTab(tab)}
setActiveTab(tab) ==
    /\ tab # activeTab
    /\ inflight = {} /\ timer = {}
    /\ activeTab' = tab
    /\ IF tab = "search"
       THEN /\ SearchRendered(data, InitialSearchSelection.groupBy,
                              InitialSearchSelection.reportType,
                              InitialSearchSelection.filterField,
                              InitialSearchSelection.selectedFilterValues)
            /\ UNCHANGED <<trendVars, trendLoading>>
       ELSE /\ selectedUnit' = InitialSelection.selectedUnit
            /\ selectedTrendGroup' = InitialSelection.selectedTrendGroup
            /\ selectedFirstColumn' = InitialSelection.selectedFirstColumn
            /\ selectedParameter' = InitialSelection.selectedParameter
            /\ selectedTrendValues' = InitialSelection.selectedTrendValues
            /\ trendResponse' = NoResponse
            /\ trendMap' = NoPass
            /\ trendLoading' = FALSE
            /\ UNCHANGED searchVars
    /\ UNCHANGED <<data, viewVars, loading, inflight, timer, fetchLog, liveVars>>

\* the mutant of setSelectedTrendGroup: the parameter is left as it was
setSelectedTrendGroupOnly(group) ==
    /\ activeTab = "trend"
    /\ group \in DOMAIN GROUP_PARAMETERS
    /\ selectedTrendGroup' = group
    /\ UNCHANGED <<activeTab, data, selectedUnit, selectedFirstColumn, selectedTrendValues,
                   selectedParameter, trendResponse, trendMap, searchVars, viewVars,
                   fetchVars, liveVars>>

\* the select of the metric group: onChange sets the group and its default parameter
setSelectedTrendGroup(group) ==
    /\ activeTab = "trend"
    /\ group \in DOMAIN GROUP_PARAMETERS
    /\ selectedTrendGroup' = group
    /\ selectedParameter' = DEFAULT_GROUP_PARAMETERS[group]
    /\ UNCHANGED <<activeTab, data, selectedUnit, selectedFirstColumn, selectedTrendValues,
                   trendResponse, trendMap, searchVars, viewVars, fetchVars, liveVars>>

\* the select of the parameter: its options are GROUP_PARAMETERS[selectedTrendGroup]
setSelectedParameter(parameter) ==
    /\ activeTab = "trend"
    /\ parameter \in GROUP_PARAMETERS[selectedTrendGroup]
    /\ selectedParameter' = parameter
    /\ UNCHANGED <<activeTab, data, selectedUnit, selectedTrendGroup, selectedFirstColumn,
                   selectedTrendValues, trendResponse, trendMap, searchVars, viewVars,
                   fetchVars, liveVars>>

\* the select of the first column: onChange also clears the value filter
setSelectedFirstColumn(firstColumn) ==
    /\ activeTab = "trend"
    /\ firstColumn \in FIRST_COLUMN_OPTIONS
    /\ selectedFirstColumn' = firstColumn
    /\ selectedTrendValues' = <<>>
    /\ UNCHANGED <<activeTab, data, selectedUnit, selectedTrendGroup, selectedParameter,
                   trendResponse, trendMap, searchVars, viewVars, fetchVars, liveVars>>

\* the select Group By of SearchTab; the report is rendered again
setGroupBy(by) ==
    /\ activeTab = "search"
    /\ by \in groupByOptions
    /\ SearchRendered(data, by, reportType, filterField, selectedFilterValues)
    /\ UNCHANGED <<activeTab, data, trendVars, viewVars, fetchVars, liveVars>>

----------------------------------------------------------------------------
(* The trend table of the PDF of LiveReport (downloadPDF), written from    *)
(* the response that TrendView shows.                                      *)

\* trendResponse.allKeys || trendResponse.dates || []
PdfKeys(resp) ==
    IF "allKeys" \in DOMAIN resp THEN resp.allKeys
    ELSE IF "dates" \in DOMAIN resp THEN resp.dates
    ELSE <<>>

\* key ? trendResponse.data.find(d => d.date === key)?.[label] : undefined
PdfValueAt(resp, key, label) == IF Truthy(key) THEN CellAt(resp.data, key, label) ELSE Undef

\* the cell "% Diff" of the row of a label: between the first and the last key
PdfDiffPercent(resp, label) ==
    LET allKeys == PdfKeys(resp)
        oldestVal == IF allKeys = <<>> THEN Undef ELSE PdfValueAt(resp, allKeys[1], label)
        latestVal == IF allKeys = <<>> THEN Undef
                     ELSE PdfValueAt(resp, allKeys[Len(allKeys)], label)
    IN  DiffPercent(oldestVal, latestVal)

\* const body = trendResponse.labels.map(label => ...)
PdfBody(resp) ==
    LET allKeys == PdfKeys(resp)
    IN  [head |-> allKeys,
         body |-> [i \in 1..Len(resp.labels) |->
            [label |-> resp.labels[i],
             cells |-> [k \in 1..Len(allKeys) |->
                          IF \E j \in 1..Len(resp.data) : resp.data[j].date = allKeys[k]
                          THEN CellAt(resp.data, allKeys[k], resp.labels[i])
                          ELSE Str(Dash)],
             diffPercent |-> PdfDiffPercent(resp, resp.labels[i])]]]

\* downloadPDF() on the tab trend, when there is a response
downloadPDF ==
    /\ response # NoResponse
    /\ pdfBody' = PdfBody(response)
    /\ UNCHANGED <<activeTab, data, trendVars, searchVars, response, hideEmptyLatest, rendered,
                   fetchVars, liveVars>>

NextPdf == renderRows \/ renderRowsAllKeys \/ downloadPDF

SpecPdf == InitView /\ [][NextPdf]_vars

----------------------------------------------------------------------------
(* The value filter of the first column of TrendTab: the values offered    *)
(* come from the records, and those chosen restrict the labels.            *)

\* the value a record contributes to the options of a first column
TrendOptionValue(r, firstColumn) ==
    CASE firstColumn = "unit" -> Str(JsString(Get(r, "MillUnit")))
      [] firstColumn = "machinename" -> Get(r, "MachineName")
      [] firstColumn = "articlenumber" -> Get(r, "ArticleNumber")
      [] firstColumn = "articlename" -> OrElse(Get(r, "ArticleName"), Str(NA))
      [] firstColumn = "lotid" -> Get(r, "LotID")

\* getTrendValueOptions(): Array.from(new Set(values.filter(Boolean))).sort()
getTrendValueOptions(records, firstColumn) ==
    IF firstColumn \notin FIRST_COLUMN_OPTIONS THEN <<>>
    ELSE LET values == [i \in 1..Len(records) |-> TrendOptionValue(records[i], firstColumn)]
         IN  ArraySort(Distinct(SelectSeq(values, Truthy)))

MaxOptionRecords == 2

\* records whose name fields are present, absent or empty and whose
\* timestamp parses or not
OptionRecords ==
    {BaseRecord}
    \cup Variants("ArticleName", {Undef, Str(<<>>), Str(M10)})
    \cup Variants("MachineName", {Undef, Str(M10)})
    \cup Variants("MillUnit", {Undef})
    \cup Variants("ShiftStartTime", {Str(Garbage)})

\* onChange of the SearchableMultiSelect: one of the offered values chosen
\* alone, or none
setSelectedTrendValues ==
    /\ activeTab = "trend"
    /\ \/ selectedTrendValues' = <<>>
       \/ LET options == getTrendValueOptions(data, selectedFirstColumn)
          IN  \E i \in 1..Len(options) : selectedTrendValues' = <<options[i].s>>
    /\ UNCHANGED <<activeTab, data, selectedUnit, selectedTrendGroup, selectedFirstColumn,
                   selectedParameter, trendResponse, trendMap, searchVars, viewVars,
                   fetchVars, liveVars>>

InitOptions ==
    /\ activeTab = "trend"
    /\ TrendMounted(InitialSelection)
    /\ data \in UNION {[1..n -> OptionRecords] : n \in 0..MaxOptionRecords}
    /\ SearchMounted(InitialSearchSelection)
    /\ ViewIdle
    /\ LiveIdle

NextOptions ==
    \/ \E firstColumn \in FIRST_COLUMN_OPTIONS : setSelectedFirstColumn(firstColumn)
    \/ setSelectedTrendValues
    \/ calculateTrend

SpecOptions == InitOptions /\ [][NextOptions]_vars

----------------------------------------------------------------------------
(* The selects of the metric group and of the parameter of TrendTab, over  *)
(* every group and every parameter, with changes of tab in between.        *)

\* the ids of TREND_GROUPS, the options of the select of the group
TREND_GROUPS == {"quality", "cuts", "alarms", "cmt"}

\* every parameter of some group
PARAMETERS == UNION {GROUP_PARAMETERS[group] : group \in DOMAIN GROUP_PARAMETERS}

MaxSelectRecords == 1

InitSelects ==
    /\ activeTab = "trend"
    /\ TrendMounted(InitialSelection)
    /\ data \in UNION {[1..n -> {BaseRecord}] : n \in 0..MaxSelectRecords}
    /\ SearchMounted(InitialSearchSelection)
    /\ ViewIdle
    /\ LiveIdle

NextSelects ==
    \/ \E group \in TREND_GROUPS : setSelectedTrendGroup(group)
    \/ \E parameter \in PARAMETERS : setSelectedParameter(parameter)
    \/ \E tab \in {"search", "trend"} : setActiveTab(tab)
    \/ calculateTrend

SpecSelects == InitSelects /\ [][NextSelects]_vars

----------------------------------------------------------------------------
(* The polling of LiveReport (LiveReport.tsx).  liveReport holds the state *)
(* of the mounted component: the tabs, the four filters, the dates of      *)
(* availableFilters, the requests for the filters that are under way (each *)
(* with the selectedDate of the render that issued it), whether the        *)
(* interval of the polling effect is set, and the number of its ticks.     *)

onlineSubTabs == {"cuts", "alarms", "quality", "trend"}

MaxPolls == 2

\* the dates, shifts, units and machines of availableFilters; they come from
\* the backend, and a shift may have the empty name
LiveDates == {"2024-01-02"}
LiveShifts == {"", "A"}
LiveUnitNames == {"U1"}
LiveMachineNames == {"M2"}

\* the polling effect after a render with the state lr: the cleanup of the
\* run before clears its interval, and the effect sets one when it is not
\* the tab trend and !selectedDate && !selectedShift && !selectedUnit &&
\* !selectedMachine
PollingEffect(lr) ==
    [lr EXCEPT !.interval = /\ lr.activeTab # "trend"
                            /\ lr.selectedDate = "" /\ lr.selectedShift = ""
                            /\ lr.selectedUnit = "" /\ lr.selectedMachine = ""]

\* the effect on [selectedUnit, activeTab]: fetchFilters(selectedUnit) is called
FiltersEffect(lr) == [lr EXCEPT !.pendingFilters = @ \cup {lr.selectedDate}]

\* the state after the first renders of LiveReport: the effect on
\* [initialTab] chooses the tab and empties the date
Mounted(initialTab) ==
    [mounted |-> TRUE, initialTab |-> initialTab, mainTab |-> initialTab,
     activeTab |-> IF initialTab = "dashboard" THEN "dashboard" ELSE "cuts",
     selectedDate |-> "", selectedShift |-> "all", selectedUnit |-> "",
     selectedMachine |-> "", dates |-> <<>>, pendingFilters |-> {},
     interval |-> FALSE, polls |-> 0]

\* the live report is opened from the dashboard or from the online data
mountLiveReport(initialTab) ==
    /\ liveReport = NotMounted
    /\ liveReport' = PollingEffect(FiltersEffect(Mounted(initialTab)))
    /\ UNCHANGED <<activeTab, data, trendVars, searchVars, viewVars, fetchVars, unitData,
                   machineWiseData>>

\* the live report is left: the cleanup of the polling effect runs
unmountLiveReport ==
    /\ liveReport # NotMounted
    /\ liveReport' = NotMounted
    /\ UNCHANGED <<activeTab, data, trendVars, searchVars, viewVars, fetchVars, unitData,
                   machineWiseData>>

\* onClick={() => setActiveTab(tab.id)} on a tab of the online data
setLiveActiveTab(tab) ==
    /\ liveReport # NotMounted
    /\ liveReport.mainTab = "online"
    /\ tab \in onlineSubTabs /\ tab # liveReport.activeTab
    /\ liveReport' = PollingEffect(FiltersEffect([liveReport EXCEPT !.activeTab = tab]))
    /\ UNCHANGED <<activeTab, data, trendVars, searchVars, viewVars, fetchVars, unitData,
                   machineWiseData>>

\* the select of the date, with the option "" (Default Date)
setSelectedDate(date) ==
    /\ liveReport # NotMounted
    /\ liveReport.activeTab # "trend"
    /\ date \in {""} \cup {liveReport.dates[i] : i \in 1..Len(liveReport.dates)}
    /\ liveReport' = PollingEffect([liveReport EXCEPT !.selectedDate = date])
    /\ UNCHANGED <<activeTab, data, trendVars, searchVars, viewVars, fetchVars, unitData,
                   machineWiseData>>

\* the select of the shift, with the option "all" (All Shifts)
setSelectedShift(shift) ==
    /\ liveReport # NotMounted
    /\ liveReport.activeTab # "trend"
    /\ shift \in {"all"} \cup LiveShifts
    /\ liveReport' = PollingEffect([liveReport EXCEPT !.selectedShift = shift])
    /\ UNCHANGED <<activeTab, data, trendVars, searchVars, viewVars, fetchVars, unitData,
                   machineWiseData>>

\* the select of the unit, with the option "" (All Units); not on the dashboard
setSelectedUnit(unit) ==
    /\ liveReport # NotMounted
    /\ liveReport.activeTab # "dashboard"
    /\ unit \in {""} \cup LiveUnitNames
    /\ liveReport' =
          PollingEffect(IF unit = liveReport.selectedUnit THEN liveReport
                        ELSE FiltersEffect([liveReport EXCEPT !.selectedUnit = unit]))
    /\ UNCHANGED <<activeTab, data, trendVars, searchVars, viewVars, fetchVars, unitData,
                   machineWiseData>>

\* the select of the machine, with the option "" (All Machines)
setSelectedMachine(machine) ==
    /\ liveReport # NotMounted
    /\ liveReport.activeTab \notin {"dashboard", "trend"}
    /\ machine \in {""} \cup LiveMachineNames
    /\ liveReport' = PollingEffect([liveReport EXCEPT !.selectedMachine = machine])
    /\ UNCHANGED <<activeTab, data, trendVars, searchVars, viewVars, fetchVars, unitData,
                   machineWiseData>>

\* availableFilters.dates[1] || availableFilters.dates[0]
DefaultDate(dates) == IF Len(dates) > 1 /\ dates[2] # "" THEN dates[2] ELSE dates[1]

\* resetFilters(), by the button Reset (shown while some filter is truthy)
resetFilters ==
    /\ liveReport # NotMounted
    /\ \/ liveReport.selectedDate # "" \/ liveReport.selectedShift # ""
       \/ liveReport.selectedUnit # "" \/ liveReport.selectedMachine # ""
    /\ LET date == IF liveReport.initialTab = "dashboard" /\ Len(liveReport.dates) > 0
                   THEN DefaultDate(liveReport.dates) ELSE ""
           reset == [liveReport EXCEPT !.selectedDate = date, !.selectedShift = "all",
                                       !.selectedUnit = "", !.selectedMachine = ""]
       IN  liveReport' =
              PollingEffect(IF liveReport.selectedUnit = "" THEN reset ELSE FiltersEffect(reset))
    /\ UNCHANGED <<activeTab, data, trendVars, searchVars, viewVars, fetchVars, unitData,
                   machineWiseData>>

\* fetchFilters: the response arrives; on the dashboard, when the render
\* that called it had no date, the default date is selected
fetchFiltersReturns(selectedDate, dates) ==
    /\ liveReport # NotMounted
    /\ selectedDate \in liveReport.pendingFilters
    /\ LET arrived == [liveReport EXCEPT !.pendingFilters = @ \ {selectedDate},
                                         !.dates = dates]
       IN  liveReport' =
              PollingEffect(IF /\ liveReport.initialTab = "dashboard"
                               /\ selectedDate = "" /\ Len(dates) > 0
                            THEN [arrived EXCEPT !.selectedDate = DefaultDate(dates)]
                            ELSE arrived)
    /\ UNCHANGED <<activeTab, data, trendVars, searchVars, viewVars, fetchVars, unitData,
                   machineWiseData>>

\* the interval fires after 30 seconds: fetchData()
intervalFires ==
    /\ liveReport # NotMounted
    /\ liveReport.interval
    /\ liveReport.polls < MaxPolls
    /\ liveReport' = [liveReport EXCEPT !.polls = @ + 1]
    /\ UNCHANGED <<activeTab, data, trendVars, searchVars, viewVars, fetchVars, unitData,
                   machineWiseData>>

InitPolling ==
    /\ activeTab = "search"
    /\ data = <<>>
    /\ TrendMounted(InitialSelection)
    /\ SearchMounted(InitialSearchSelection)
    /\ ViewIdle
    /\ LiveIdle

NextPolling ==
    \/ \E initialTab \in {"dashboard", "online"} : mountLiveReport(initialTab)
    \/ unmountLiveReport
    \/ \E tab \in onlineSubTabs : setLiveActiveTab(tab)
    \/ \E date \in {""} \cup LiveDates : setSelectedDate(date)
    \/ \E shift \in {"all"} \cup LiveShifts : setSelectedShift(shift)
    \/ \E unit \in {""} \cup LiveUnitNames : setSelectedUnit(unit)
    \/ \E machine \in {""} \cup LiveMachineNames : setSelectedMachine(machine)
    \/ resetFilters
    \/ \E selectedDate \in {""} \cup LiveDates :
          \E dates \in {<<>>} \cup {<<d>> : d \in LiveDates} :
             fetchFiltersReturns(selectedDate, dates)
    \/ intervalFires

SpecPolling == InitPolling /\ [][NextPolling]_vars

----------------------------------------------------------------------------
(* The requests of the long-term report from the search tab: Load Data,    *)
(* Search Lot, Apply (articles) and Reset, and the requests that return.   *)

\* handleLoadData(startDate, endDate), by the button Load Data (disabled
\* while loading or without dates)
handleLoadData ==
    /\ activeTab = "search" /\ ~loading
    /\ \E result \in FetchResults :
          FetchData(result) /\ fetchLog' = Requested(fetchLog, result)
    /\ UNCHANGED <<activeTab, data, trendVars, searchVars, viewVars, trendLoading, timer,
                   liveVars>>

\* handleSearchLot(lotIds), by the button next to the lot input
handleSearchLot ==
    /\ activeTab = "search"
    /\ \E result \in FetchResults :
          FetchData(result) /\ fetchLog' = Requested(fetchLog, result)
    /\ UNCHANGED <<activeTab, data, trendVars, searchVars, viewVars, trendLoading, timer,
                   liveVars>>

\* handleSearchArticle(articles), by the button Apply (articles are selected)
handleSearchArticle ==
    /\ activeTab = "search"
    /\ \E result \in FetchResults :
          FetchData(result) /\ fetchLog' = Requested(fetchLog, result)
    /\ UNCHANGED <<activeTab, data, trendVars, searchVars, viewVars, trendLoading, timer,
                   liveVars>>

\* SearchTab.handleReset and LongTermReport.handleReset: the selects go back
\* to their defaults and setData([])
handleReset ==
    /\ activeTab = "search"
    /\ data' = <<>>
    /\ SearchRendered(<<>>, InitialSearchSelection.groupBy, InitialSearchSelection.reportType,
                      InitialSearchSelection.filterField,
                      InitialSearchSelection.selectedFilterValues)
    /\ fetchLog' = [fetchLog EXCEPT !.reset = TRUE, !.lastResult = <<>>]
    /\ UNCHANGED <<activeTab, trendVars, viewVars, loading, trendLoading, inflight, timer,
                   liveVars>>

\* LongTermReport is mounted: no records, the tab search
InitFetch ==
    /\ activeTab = "search"
    /\ data = <<>>
    /\ TrendMounted(InitialSelection)
    /\ SearchMounted(InitialSearchSelection)
    /\ ViewIdle
    /\ LiveIdle

NextFetch ==
    \/ handleLoadData
    \/ handleSearchLot
    \/ handleSearchArticle
    \/ handleReset
    \/ \E f \in inflight : fetchSucceeds(f)
    \/ \E f \in inflight : fetchFails(f)

SpecFetch == InitFetch /\ [][NextFetch]_vars

----------------------------------------------------------------------------
(* The ratio metrics in the two tabs: records of one day whose CVAvg is a  *)
(* number, absent or not a number, shown by machine in the search report   *)
(* and then in the trend tab.                                              *)

MaxRatioRecords == 2

RatioRecords ==
    {BaseRecord, [BaseRecord EXCEPT !.MachineName = Str(M10)]}
    \cup Variants("CVAvg", {Num(2), Undef, Str(Garbage)})

RatioGroupBys == {"MillUnit", "MachineName"}
RatioFirstColumns == {"unit", "machinename"}
RatioParameters == {"IPI", "CVAvg"}

\* LongTermReport is mounted on the tab search and the records are loaded
InitRatio ==
    /\ activeTab = "search"
    /\ data \in UNION {[1..n -> RatioRecords] : n \in 0..MaxRatioRecords}
    /\ SearchMounted(InitialSearchSelection)
    /\ TrendMounted(InitialSelection)
    /\ ViewIdle
    /\ LiveIdle

NextRatio ==
    \/ \E tab \in {"search", "trend"} : setActiveTab(tab)
    \/ \E by \in RatioGroupBys : setGroupBy(by)
    \/ \E firstColumn \in RatioFirstColumns : setSelectedFirstColumn(firstColumn)
    \/ \E parameter \in RatioParameters : setSelectedParameter(parameter)
    \/ calculateTrend
    \/ groupData

SpecRatio == InitRatio /\ [][NextRatio]_vars

----------------------------------------------------------------------------
(* The claims about the aggregation.                                       *)

RECURSIVE Total(_, _)
\* the sum of f[x] over the elements x of the finite set S
Total(f, S) ==
    IF S = {} THEN Num(0)
    ELSE LET x == CHOOSE y \in S : TRUE IN Add(f[x], Total(f, S \ {x}))

\* the sum of a numeric expression over the records of a sequence
TotalOver(records, Op(_)) == Total([i \in 1..Len(records) |-> Op(records[i])], 1..Len(records))

\* a timestamp that can be parsed: a string that denotes a calendar day
HasParseableTimestamp(r) ==
    Get(r, "ShiftStartTime").t = "string" /\ ParseDate(Get(r, "ShiftStartTime").s).valid

\* what a field is to contribute to a sum: its value when it is a number
\* (and not NaN), and 0 when it is absent, null or not numeric
Contribution(r, f) ==
    LET v == Get(r, f) IN IF IsNumberType(v) /\ ~IsNaN(v) THEN v ELSE Num(0)

\* the fields that feed the sum of a parameter of the trend tab
ParameterFields(parameter) ==
    CASE parameter = "IPI" -> {"Thin50", "Thick50", "Nep200"}
      [] parameter = "HSIPI" -> {"Thin40", "Thick35", "Nep140"}
      [] parameter = "totalAlarms" -> Range(alarmColumns)
      [] OTHER -> {parameter}

ParameterContribution(r) ==
    Total([f \in ParameterFields(selectedParameter) |-> Contribution(r, f)],
          ParameterFields(selectedParameter))

\* the records that the trend tab is to route: they pass the unit filter and
\* the value filter and carry a timestamp that can be parsed
TrendKept ==
    SelectSeq(data, LAMBDA r :
        /\ selectedUnit = <<>> \/ StrictEq(Get(r, "MillUnit"), Str(selectedUnit))
        /\ Len(selectedTrendValues) = 0
           \/ IncludesValue(selectedTrendValues, TrendLabel(r, selectedFirstColumn))
        /\ HasParseableTimestamp(r))

\* the records that the search tab is to route: they pass the value filter
\* and, when the rows are dates, carry a timestamp that can be parsed
SearchKept ==
    SelectSeq(FilteredData(data, filterField, selectedFilterValues),
              LAMBDA r : groupBy = "ShiftStartTime" => HasParseableTimestamp(r))

\* the (date, label) groups of the trend tab
TrendCells == UNION {{<<date, key>> : key \in DOMAIN trendMap[date]} : date \in DOMAIN trendMap}

TrendStats(c) == trendMap[c[1]][c[2]]

\* the accumulators of the trend tab, those of the machines included
TrendAllStats ==
    {TrendStats(c) : c \in TrendCells}
    \cup UNION {{TrendStats(c).machines[m] : m \in DOMAIN TrendStats(c).machines} :
                   c \in TrendCells}

perLengthFields ==
    {REPORT_COLUMNS[i].field : i \in {j \in 1..Len(REPORT_COLUMNS) :
                                         REPORT_COLUMNS[j].type = "perLength"}}

TrendConserves ==
    /\ NumEq(Total([c \in TrendCells |-> TrendStats(c).count], TrendCells), Num(Len(TrendKept)))
    /\ NumEq(Total([c \in TrendCells |-> TrendStats(c).sum], TrendCells),
             TotalOver(TrendKept, ParameterContribution))
    /\ NumEq(Total([c \in TrendCells |-> TrendStats(c).yarnLength], TrendCells),
             TotalOver(TrendKept, LAMBDA r : Contribution(r, "YarnLength")))
    /\ NumEq(Total([c \in TrendCells |-> TrendStats(c).refLength], TrendCells),
             TotalOver(TrendKept, LAMBDA r : Contribution(r, "IPRefLength")))

SearchConserves ==
    /\ Cardinality(DOMAIN groups) <= Len(SearchKept)
    /\ \A f \in perLengthFields :
          NumEq(Total([key \in DOMAIN groups |-> GetOrZero(groups[key].sums, f)], DOMAIN groups),
                TotalOver(SearchKept, LAMBDA r : Contribution(r, f)))
    /\ NumEq(Total([key \in DOMAIN groups |-> groups[key].totalLength], DOMAIN groups),
             TotalOver(SearchKept, LAMBDA r : Contribution(r, "YarnLength")))
    /\ NumEq(Total([key \in DOMAIN groups |-> groups[key].refLen], DOMAIN groups),
             TotalOver(SearchKept, LAMBDA r : Contribution(r, "IPRefLength")))

\* C1: after an aggregation, every record that is not excluded (by a filter
\* or by a timestamp that cannot be parsed) is in exactly one group, and the
\* group sums of the metric, of the yarn length and of the reference length
\* add up to the sums of those fields over the records that are not excluded.
SumConservation ==
    /\ trendMap # NoPass => TrendConserves
    /\ groups # NoPass => SearchConserves

\* C2: no accumulator of the trend tab or of the search tab is ever NaN.
NoAccumulatorIsNaN ==
    /\ trendMap # NoPass =>
          \A st \in TrendAllStats :
              ~IsNaN(st.sum) /\ ~IsNaN(st.refLength) /\ ~IsNaN(st.yarnLength) /\ ~IsNaN(st.count)
    /\ groups # NoPass =>
          \A key \in DOMAIN groups :
              LET acc == groups[key]
              IN  /\ ~IsNaN(acc.totalLength) /\ ~IsNaN(acc.refLen)
                  /\ ~IsNaN(acc.totalIPI) /\ ~IsNaN(acc.totalHSIPI)
                  /\ \A f \in DOMAIN acc.sums : ~IsNaN(acc.sums[f])
                  /\ \A f \in DOMAIN acc.counts : ~IsNaN(acc.counts[f])

Zeros == <<"0", ".", "0", "0">>

\* whether the cells of the trend tab are quotients
HasDenominator == selectedTrendGroup \in {"quality", "cuts", "cmt"}

\* the denominator of the cell of an accumulator of the trend tab
TrendDenominator(st) ==
    IF selectedTrendGroup = "quality"
    THEN (IF selectedParameter \in {"CVAvg", "HAvg"} THEN st.count ELSE st.refLength)
    ELSE st.yarnLength

\* the denominator of the cell of a column of a group of the search tab
SearchDenominator(acc, col) ==
    CASE col.type \in {"customTotalIPI", "customTotalHSIPI"} -> acc.refLen
      [] col.type = "perLength" -> acc.totalLength
      [] OTHER -> GetOrZero(acc.counts, col.field)

\* the cells of the trend tab with their accumulators: those of the rows and
\* those of the drill-down rows
TrendFinals ==
    UNION {
        LET row == trendResponse.data[i]
            date == row.date.s
        IN  UNION {
                {[stats |-> trendMap[date][key], cell |-> row.cells[key]]}
                \cup {[stats |-> trendMap[date][key].machines[m.s],
                       cell |-> trendResponse.drillDownData[key].data[i].cells[m.s]] :
                         m \in {x \in Range(trendResponse.drillDownData[key].labels) :
                                   x.s \in DOMAIN trendMap[date][key].machines}} :
                key \in DOMAIN row.cells} :
        i \in 1..Len(trendResponse.data)}

\* C3: a cell whose denominator (total length, reference length or count) is
\* 0 is the sentinel of its table, "0.00" in the trend tab and "N/A" in the
\* search tab, whatever the sum is; it is never Infinity or NaN.
ZeroDenominatorSentinel ==
    /\ trendResponse # NoResponse /\ HasDenominator =>
          \A c \in TrendFinals : IsZero(TrendDenominator(c.stats)) => c.cell = Str(Zeros)
    /\ groups # NoPass =>
          \A i \in 1..Len(groupedRows) : \A col \in Range(REPORT_COLUMNS) :
              IsZero(SearchDenominator(groups[groupedRows[i].groupKey], col))
                  => groupedRows[i].cells[col.title] = Str(NA)

\* a group of the trend tab with the denominator 0 and a sum that is not 0
\* has got its cell
ZeroDenominatorNonZeroSum ==
    /\ trendResponse # NoResponse /\ HasDenominator
    /\ \E c \in TrendFinals :
          IsZero(TrendDenominator(c.stats)) /\ GtZero(c.stats.sum) /\ c.cell = Str(Zeros)

NaturallyOrdered(labels) ==
    \A i, j \in 1..Len(labels) : i < j => NaturalCompare(labels[i], labels[j]) <= 0

\* C4: the labels of the trend table, the machine labels of its drill-down
\* tables and the rows of the search report (when they are not dates) are in
\* the numeric-aware order, "M2" before "M10".
LabelsInNaturalOrder ==
    /\ trendResponse # NoResponse =>
          /\ NaturallyOrdered([i \in 1..Len(trendResponse.labels) |-> trendResponse.labels[i].s])
          /\ \A key \in DOMAIN trendResponse.drillDownData :
                LET machines == trendResponse.drillDownData[key].labels
                IN  NaturallyOrdered([i \in 1..Len(machines) |-> machines[i].s])
    /\ groups # NoPass /\ groupBy # "ShiftStartTime" =>
          NaturallyOrdered([i \in 1..Len(groupedRows) |-> groupedRows[i].groupKey])

\* the records of an array whose timestamp can be parsed
WithTimestamps(records) == SelectSeq(records, HasParseableTimestamp)

\* C7: a record whose timestamp cannot be parsed is dropped: the trend tab,
\* and the search tab when its rows are dates, build what they build from the
\* other records alone.
UnparseableTimestampsAreDropped ==
    /\ trendMap # NoPass =>
          /\ trendMap = TrendAccumulators(WithTimestamps(data), Sel).trendMap
          /\ trendResponse = CalculateTrend(WithTimestamps(data), Sel)
    /\ groups # NoPass /\ groupBy = "ShiftStartTime" =>
          /\ groups = GroupAccumulators(FilteredData(WithTimestamps(data), filterField,
                                                     selectedFilterValues),
                                        groupBy, reportType).map
          /\ groupedRows = GroupData(WithTimestamps(data), groupBy, reportType, filterField,
                                     selectedFilterValues)

\* the label that a record is to get from a dimension field: "Unknown" or
\* "N/A" when the field is missing or falsy
LabelOrElse(r, f, fallback) == IF Truthy(Get(r, f)) THEN JsString(Get(r, f)) ELSE fallback

\* C9: a record whose dimension field is missing or falsy is grouped under
\* "Unknown" in the trend tab, for every first column, and under "N/A" in
\* the search tab, for every group-by field.
LabelFallback ==
    /\ trendResponse # NoResponse =>
          {trendResponse.labels[i].s : i \in 1..Len(trendResponse.labels)}
              = {LabelOrElse(r, DimensionField(selectedFirstColumn), Unknown) :
                    r \in {x \in Range(data) : ~TrendSkips(x, Sel)}}
    /\ groups # NoPass =>
          DOMAIN groups
              = {IF Truthy(Get(r, groupBy)) THEN GroupKey(r, groupBy, reportType) ELSE NA :
                    r \in Range(FilteredData(data, filterField, selectedFilterValues))}

\* the arrays that hold the records of an array in some order
Reorderings(arr) ==
    {[i \in 1..Len(arr) |-> arr[f[i]]] :
        f \in {g \in [1..Len(arr) -> 1..Len(arr)] : \A i, j \in 1..Len(arr) : g[i] = g[j] => i = j}}

\* C10: calculateTrend on the same records in any order, with the same
\* selections, gives the same dates, labels, cells and drill-down tables.
TrendIsOrderIndependent ==
    trendResponse # NoResponse =>
        \A arr \in Reorderings(data) : CalculateTrend(arr, Sel) = trendResponse

\* the week of a day of the month by the fixed cut points 7, 14, 21 and 28
WeekByCutPoints(day) ==
    CASE day \in 1..7 -> <<"W", "1">>
      [] day \in 8..14 -> <<"W", "2">>
      [] day \in 15..21 -> <<"W", "3">>
      [] day \in 22..28 -> <<"W", "4">>
      [] OTHER -> <<"W", "5">>

\* the pair (month, week) of the day of a record, as the key of its group
MonthAndWeek(r) ==
    LET date == ParseDate(Get(r, "ShiftStartTime").s)
    IN  NatToStr(date.m) \o <<"-">> \o WeekByCutPoints(date.d)

\* C8: in the weekly report a record of the day d of a month is in the group
\* (month, week) with the week W1 for d <= 7, W2 for 8..14, W3 for 15..21,
\* W4 for 22..28 and W5 from the 29th on, and in no other group.
WeeklyCutPoints ==
    groups # NoPass /\ groupBy = "ShiftStartTime" /\ reportType = "weekly"
        /\ (\A i \in 1..Len(data) : HasParseableTimestamp(data[i])) =>
            /\ DOMAIN groups = {MonthAndWeek(data[i]) : i \in 1..Len(data)}
            /\ \A key \in DOMAIN groups :
                  NumEq(groups[key].totalLength,
                        TotalOver(SelectSeq(data, LAMBDA r : MonthAndWeek(r) = key),
                                  LAMBDA r : Contribution(r, "YarnLength")))

\* the records of the 28th and of the 29th of January are grouped, in two
\* groups
WeeklyBoundaryGrouped ==
    /\ groups # NoPass /\ reportType = "weekly"
    /\ Len(data) = 2
    /\ Get(data[1], "ShiftStartTime") = Str(DateString(1, 28))
    /\ Get(data[2], "ShiftStartTime") = Str(DateString(1, 29))
    /\ DOMAIN groups = {NatToStr(1) \o <<"-", "W", "4">>, NatToStr(1) \o <<"-", "W", "5">>}

----------------------------------------------------------------------------
(* The claims about the percent-change column.                             *)

\* the values of a rendered row along the columns of the table
RowValues(row) ==
    LET dataSet == IF row.isSubRow THEN response.drillDownData[row.parentLabel.s].data
                   ELSE response.data
    IN  [i \in 1..Len(rendered.columns) |-> CellAt(dataSet, rendered.columns[i], row.label)]

\* the buckets at which a rendered row has a value
DefinedAt(row) == {i \in 1..Len(rendered.columns) : RowValues(row)[i] \notin {Undef, Null}}

Earliest(row) == RowValues(row)[CHOOSE i \in DefinedAt(row) : \A j \in DefinedAt(row) : i <= j]

Latest(row) == RowValues(row)[Len(rendered.columns)]

\* ((latest - earliest) / earliest) * 100 with one decimal and its sign
PercentText(earliest, latest) ==
    LET diff == Mul(Div(Sub(ToNumber(latest), ToNumber(earliest)), ToNumber(earliest)), Num(100))
    IN  (IF GtZero(diff) THEN <<"+">> ELSE <<>>) \o ToFixed(diff, 1) \o <<"%">>

RenderedRows == IF "rows" \in DOMAIN rendered THEN Range(rendered.rows) ELSE {}

SingleValueRowsShowDash ==
    \A row \in RenderedRows : Cardinality(DefinedAt(row)) = 1 => row.diffPercent = Dash

----------------------------------------------------------------------------
(* Claims about the filters, the order of the buckets and the finalizers.  *)

\* C11: given an empty record array, calculateTrend produces the empty
\* response: no labels, no dates, no rows and an empty drill-down map.
EmptyArrayGivesEmptyResponse ==
    (activeTab = "trend" /\ data = <<>> /\ trendResponse # NoResponse)
        => /\ trendResponse.labels = <<>>
           /\ trendResponse.dates = <<>>
           /\ trendResponse.data = <<>>
           /\ DOMAIN trendResponse.drillDownData = {}

\* calculateTrend has run on an empty record array
EmptyArrayAggregated ==
    activeTab = "trend" /\ data = <<>> /\ trendResponse # NoResponse

\* the records of the trend tab whose unit and label are in the selections
TrendInside ==
    SelectSeq(data, LAMBDA r :
        /\ selectedUnit # <<>> => Get(r, "MillUnit") = Str(selectedUnit)
        /\ selectedTrendValues # <<>> =>
               \E i \in 1..Len(selectedTrendValues) :
                   TrendLabel(r, selectedFirstColumn) = Str(selectedTrendValues[i]))

\* the selections of the trend tab with the unit and the values cleared
WithoutFilters == [Sel EXCEPT !.selectedUnit = <<>>, !.selectedTrendValues = <<>>]

\* the records of the search tab whose filter-field value is selected
SearchInside ==
    SelectSeq(data, LAMBDA r :
        (filterField # "" /\ selectedFilterValues # <<>>) =>
            \E i \in 1..Len(selectedFilterValues) :
                LabelOrElse(r, filterField, NA) = selectedFilterValues[i])

\* C12: a record whose unit, label or filter-field value is outside an
\* active selection contributes nothing: the accumulators, the labels, the
\* dates and the rows are those of the records inside the selection alone,
\* and every label of the trend output is a selected value.
ValueFilterGatesAccumulation ==
    /\ (activeTab = "trend" /\ trendResponse # NoResponse) =>
          /\ trendMap = TrendAccumulators(TrendInside, WithoutFilters).trendMap
          /\ trendResponse = CalculateTrend(TrendInside, WithoutFilters)
          /\ selectedTrendValues # <<>> =>
                \A i \in 1..Len(trendResponse.labels) :
                    trendResponse.labels[i].s \in Range(selectedTrendValues)
    /\ (activeTab = "search" /\ groups # NoPass) =>
          /\ groups = GroupAccumulators(SearchInside, groupBy, reportType).map
          /\ groupedRows = GroupData(SearchInside, groupBy, reportType, "", <<>>)

\* the trend has been computed under a selection of values from records of
\* which one is inside the selection and one is outside
FilteredRecordExcluded ==
    /\ activeTab = "trend" /\ trendResponse # NoResponse
    /\ selectedTrendValues # <<>>
    /\ Len(TrendInside) = 1 /\ Len(data) = 2
    /\ Len(trendResponse.labels) = 1

RECURSIVE LexLess(_, _)
\* a is before b in the lexicographic order of the characters
LexLess(a, b) ==
    IF b = <<>> THEN FALSE
    ELSE IF a = <<>> THEN TRUE
    ELSE IF a[1] = b[1] THEN LexLess(Tail(a), Tail(b))
    ELSE CodeUnit(a[1]) < CodeUnit(b[1])

\* the pair (month, weekIndex) of a weekly key "m-Wk" is before that of another
WeekPairLess(a, b) ==
    LET pa == Split(a, "-")
        pb == Split(b, "-")
        ma == DigitsVal(pa[1])
        mb == DigitsVal(pb[1])
    IN  ma < mb \/ (ma = mb /\ DigitsVal(Tail(pa[2])) < DigitsVal(Tail(pb[2])))

\* the keys of the rows of the search report, in the order of the rows
RowKeys == [i \in 1..Len(groupedRows) |-> groupedRows[i].groupKey]

\* C13: the time buckets of the output are distinct and ascending, in the
\* lexicographic order of the keys for daily and monthly buckets and in the
\* order of the pairs (month, weekIndex) for weekly buckets, in the dates of
\* the trend and in the rows of the search report grouped by date; the trend
\* has one row of data per date, in the order of the dates.
BucketsAscending ==
    /\ trendResponse # NoResponse =>
          /\ \A i, j \in 1..Len(trendResponse.dates) :
                i < j => LexLess(trendResponse.dates[i].s, trendResponse.dates[j].s)
          /\ Len(trendResponse.data) = Len(trendResponse.dates)
          /\ \A i \in 1..Len(trendResponse.dates) :
                trendResponse.data[i].date = trendResponse.dates[i]
    /\ (groups # NoPass /\ groupBy = "ShiftStartTime") =>
          \A i, j \in 1..Len(RowKeys) :
              i < j => IF reportType = "weekly" THEN WeekPairLess(RowKeys[i], RowKeys[j])
                       ELSE LexLess(RowKeys[i], RowKeys[j])

\* the kept records of a date and a label of the trend tab
RecordsOfCell(date, key) ==
    SelectSeq(TrendKept, LAMBDA r :
        /\ IsoDateString(ParseDate(Get(r, "ShiftStartTime").s)) = date
        /\ JsString(TrendLabel(r, selectedFirstColumn)) = key)

\* those of them of a machine
RecordsOfMachine(date, key, machine) ==
    SelectSeq(RecordsOfCell(date, key),
              LAMBDA r : LabelOrElse(r, "MachineName", Unknown) = machine)

LengthOver(records, field) == TotalOver(records, LAMBDA r : Contribution(r, field))

\* whether the policy of the selected group and parameter divides by a
\* quantity that is not 0 over the records
PolicyDefined(records) ==
    CASE selectedTrendGroup = "quality" /\ selectedParameter \in {"CVAvg", "HAvg"} ->
            Len(records) > 0
      [] selectedTrendGroup = "quality" -> GtZero(LengthOver(records, "IPRefLength"))
      [] selectedTrendGroup \in {"cuts", "cmt"} -> GtZero(LengthOver(records, "YarnLength"))
      [] OTHER -> TRUE

\* the value of the policy of the selected group and parameter over records
PolicyValue(records) ==
    LET sum == TotalOver(records, ParameterContribution)
    IN  CASE selectedTrendGroup = "quality" /\ selectedParameter \in {"CVAvg", "HAvg"} ->
                ToFixed(Div(sum, Num(Len(records))), 2)
          [] selectedTrendGroup = "quality" ->
                ToFixed(Div(sum, LengthOver(records, "IPRefLength")), 2)
          [] selectedTrendGroup \in {"cuts", "cmt"} ->
                ToFixed(Mul(Div(sum, LengthOver(records, "YarnLength")), Num(100)), 2)
          [] OTHER -> NatToStr(sum.n)

\* C14: a cell of the trend table is, over the records of its date and
\* label, sum/refLength with 2 decimals in the quality group, except
\* sum/count for CVAvg and HAvg (the sum of IPI being Thin50 + Thick50 +
\* Nep200 and that of HSIPI Thin40 + Thick35 + Nep140 per record),
\* (sum/yarnLength)*100 with 2 decimals in the cuts and cmt groups and the
\* plain sum as an integer string in the alarms group; a cell of a
\* drill-down table is the same over the records of its machine.
TrendFinalizerPolicy ==
    trendResponse # NoResponse =>
        \A i \in 1..Len(trendResponse.data) :
            LET row == trendResponse.data[i] IN
            \A key \in DOMAIN row.cells :
                /\ PolicyDefined(RecordsOfCell(row.date.s, key)) =>
                      row.cells[key] = Str(PolicyValue(RecordsOfCell(row.date.s, key)))
                /\ LET sub == trendResponse.drillDownData[key].data[i] IN
                   \A m \in DOMAIN sub.cells :
                       PolicyDefined(RecordsOfMachine(row.date.s, key, m)) =>
                           sub.cells[m] = Str(PolicyValue(RecordsOfMachine(row.date.s, key, m)))

\* the average of CVAvg over a record of 1.5 and a record without CVAvg, and
\* that of the machine in the drill-down table, is 0.75
AverageOverTwoRecords ==
    /\ trendResponse # NoResponse
    /\ selectedParameter = "CVAvg" /\ selectedFirstColumn = "unit"
    /\ Len(data) = 2 /\ Len(trendResponse.data) = 1
    /\ trendResponse.data[1].cells[U1] = Str(<<"0", ".", "7", "5">>)
    /\ trendResponse.drillDownData[U1].data[1].cells[M2] = Str(<<"0", ".", "7", "5">>)

\* the records of a row of the search report that is not a date
RecordsOfGroup(key) ==
    SelectSeq(FilteredData(data, filterField, selectedFilterValues),
              LAMBDA r : LabelOrElse(r, groupBy, NA) = key)

\* numerator / denominator with the given decimals, "N/A" when the
\* denominator is 0
QuotientOrNA(numerator, denominator, decimals) ==
    IF GtZero(denominator) THEN ToFixed(Div(numerator, denominator), decimals) ELSE NA

\* the cell of a column by the policy of its type, over records
ColumnPolicyValue(records, col) ==
    LET over(fields) ==
            TotalOver(records, LAMBDA r : Total([f \in fields |-> Contribution(r, f)], fields))
        counted == SelectSeq(records, LAMBDA r : IsNumberType(Get(r, col.field)))
    IN  CASE col.type = "perLength" ->
                QuotientOrNA(Mul(over({col.field}), Num(100)), over({"YarnLength"}), 0)
          [] col.type = "simpleAvg" ->
                QuotientOrNA(over({col.field}), Num(Len(counted)), 2)
          [] col.type = "customTotalIPI" ->
                QuotientOrNA(over({"Thin50", "Thick50", "Nep200"}), over({"IPRefLength"}), 0)
          [] col.type = "customTotalHSIPI" ->
                QuotientOrNA(over({"Thin40", "Thick35", "Nep140"}), over({"IPRefLength"}), 0)

\* C15: in every row of the search report a perLength cell is
\* (sum/totalLength)*100 with 0 decimals, a simpleAvg cell (CV%, H) is
\* sum/count with 2 decimals, IPI is the sum of Thin50 + Thick50 + Nep200
\* over the sum of IPRefLength with 0 decimals and HS IPI that of Thin40 +
\* Thick35 + Nep140, each "N/A" when its denominator is 0.
SearchFinalizerPolicy ==
    (groups # NoPass /\ groupBy # "ShiftStartTime") =>
        \A i \in 1..Len(groupedRows) : \A col \in Range(REPORT_COLUMNS) :
            groupedRows[i].cells[col.title]
                = Str(ColumnPolicyValue(RecordsOfGroup(groupedRows[i].groupKey), col))

\* the report by machine of the machine M2 with two records of 1000 units
\* of yarn, and of the machine M10
TwoMachinesFinalized ==
    /\ groups # NoPass /\ groupBy = "MachineName"
    /\ Len(data) = 2 /\ Len(groupedRows) = 2
    /\ groupedRows[1].groupKey = M2 /\ groupedRows[2].groupKey = M10
    /\ Get(data[1], "YarnLength") = Num(0)
    /\ groupedRows[1].cells["YF"] = Str(NA)
    /\ groupedRows[1].cells["CV%"] = Str(NA)
    /\ groupedRows[2].cells["YF"] = Str(<<"1">>)
    /\ groupedRows[2].cells["CV%"] = Str(<<"2", ".", "0", "0">>)
    /\ groupedRows[2].cells["IPI"] = Str(<<"3">>)

\* the two records of the scenario: unit U1 on 2024-01-01, 10 and 20 yarn
\* faults over 1000 units of yarn each
ScenarioData ==
    data \in {<<PolicyRecord(10), PolicyRecord(20)>>, <<PolicyRecord(20), PolicyRecord(10)>>}

\* the trend of YarnFaults by unit over the scenario: one group with the
\* sum 30 and the length 2000, and its cell
ScenarioTrendCell(cell) ==
    (/\ ScenarioData /\ trendResponse # NoResponse
     /\ selectedParameter = "YarnFaults" /\ selectedFirstColumn = "unit") =>
        /\ TrendCells = {<<DateString(1, 1), U1>>}
        /\ trendMap[DateString(1, 1)][U1].sum = Num(30)
        /\ trendMap[DateString(1, 1)][U1].yarnLength = Num(2000)
        /\ trendResponse.data[1].cells[U1] = Str(cell)

\* the search report by unit over the scenario: one group with the sum 30
\* and the length 2000, and its cell of the perLength column YF
ScenarioSearchCell(cell) ==
    (ScenarioData /\ groups # NoPass /\ groupBy = "MillUnit") =>
        /\ DOMAIN groups = {U1}
        /\ groups[U1].sums["YarnFaults"] = Num(30)
        /\ groups[U1].totalLength = Num(2000)
        /\ groupedRows[1].cells["YF"] = Str(cell)

\* C16: two records of unit U1 on 2024-01-01 with 10 and 20 yarn faults over
\* 1000 units of yarn each are one group with the sum 30 and the total
\* length 2000, whose per-length cell is "1.50" in the trend table; in the
\* search report, which gives per-length cells without decimals, it is "2".
ScenarioCells ==
    /\ ScenarioTrendCell(<<"1", ".", "5", "0">>)
    /\ ScenarioSearchCell(<<"2">>)

\* C16 as stated: the per-length cell of the group is "1.50", in the trend
\* table and in the search report.
ScenarioCellIsOnePointFive ==
    /\ ScenarioTrendCell(<<"1", ".", "5", "0">>)
    /\ ScenarioSearchCell(<<"1", ".", "5", "0">>)

\* the trend of YarnFaults by unit has been computed over the scenario
ScenarioAggregated ==
    /\ ScenarioData /\ trendResponse # NoResponse
    /\ selectedParameter = "YarnFaults" /\ selectedFirstColumn = "unit"
    /\ trendResponse.data[1].cells[U1] = Str(<<"1", ".", "5", "0">>)

\* a value that is defined, numeric and not 0
NumericNonZero(v) ==
    /\ v.t \in {"string", "number"}
    /\ ~IsNaN(ToNumber(v)) /\ ~IsZero(ToNumber(v))

\* the labels of the rows of the rendered table that are not drill-down rows
ShownLabels ==
    LET main == SelectSeq(rendered.rows, LAMBDA row : ~row.isSubRow)
    IN  [i \in 1..Len(main) |-> main[i].label]

\* the value of a label in the most recent bucket of the response
LatestValueOf(label) ==
    LET rows == SelectSeq(response.data,
                          LAMBDA row : row.date = response.dates[Len(response.dates)])
    IN  IF rows # <<>> /\ label.s \in DOMAIN rows[1].cells THEN rows[1].cells[label.s]
        ELSE Undef

\* C17: with hideEmptyLatest the labels shown are those whose value in the
\* most recent bucket is defined, numeric and not 0, whatever the metric
\* group and the text of its zero; without it every label is shown.
HiddenWhenLatestIsEmpty ==
    (rendered # NotRendered /\ rendered # NoDataFound) =>
        ShownLabels = SelectSeq(response.labels,
                                LAMBDA label : ~hideEmptyLatest
                                               \/ NumericNonZero(LatestValueOf(label)))

\* C18: after Show Data with a start and an end date, when the fetch has
\* returned and the timer has expired, in whichever order, the trend table
\* displayed is computed from the records that the fetch returned (the
\* records that the report holds now).
ShowDataUsesFetchedRecords ==
    (inflight = {} /\ timer = {} /\ trendResponse # NoResponse) =>
        trendResponse = CalculateTrend(data, Sel)

\* C19: no exception escapes the aggregations: over records and machine
\* entries of which any field may be absent, null or not a number,
\* calculateTrend, groupData and getMachineWiseData return a result.
NoExceptionEscapes ==
    /\ trendMap # NoPass => trendResponse # NoResponse
    /\ groups # NoPass => Len(groupedRows) = Cardinality(DOMAIN groups)
    /\ machineWiseData # NotComputed => ~machineWiseData.threw

\* the entries of the live report whose machine is called name
EntriesNamed(unit, name) ==
    SelectSeq(EntriesOf(unit), LAMBDA e : Get(e.mach, "machineName") = Str(name))

RECURSIVE SumAsNumbers(_)
\* the sum of the values, one that is not a number counting as 0
SumAsNumbers(values) ==
    IF values = <<>> THEN Num(0)
    ELSE Add(OrElse(ToNumber(Head(values)), Num(0)), SumAsNumbers(Tail(values)))

\* the values of a field over the entries
FieldOver(entries, f) == [i \in 1..Len(entries) |-> Get(entries[i].mach, f)]

\* the values of a key of alarmBreakdown over the entries that hold it
BreakdownOver(entries, key) ==
    LET holding == SelectSeq(entries, LAMBDA e : /\ "alarmBreakdown" \in DOMAIN e.mach
                                                 /\ key \in DOMAIN e.mach.alarmBreakdown)
    IN  [i \in 1..Len(holding) |-> holding[i].mach.alarmBreakdown[key]]

BreakdownKeys(entries) ==
    UNION {DOMAIN entries[i].mach.alarmBreakdown :
             i \in {j \in 1..Len(entries) : "alarmBreakdown" \in DOMAIN entries[j].mach}}

\* the row is the rollup of the entries of its machine
RowIsRollup(row, entries) ==
    /\ \A f \in DOMAIN row.counts : row.counts[f] = SumAsNumbers(FieldOver(entries, f))
    /\ row.totalAlarms = SumAsNumbers(FieldOver(entries, "totalAlarms"))
    /\ DOMAIN row.alarmBreakdown = BreakdownKeys(entries)
    /\ \A key \in DOMAIN row.alarmBreakdown :
          row.alarmBreakdown[key] = SumAsNumbers(BreakdownOver(entries, key))
    /\ Len(row.articles) = Len(entries)

\* C20: getMachineWiseData returns one row per distinct machineName of the
\* machine entries; each count, totalAlarms and each alarmBreakdown key of a
\* row is the sum of the field over the entries of that machine, a value
\* that is not a number counting as 0; the articles of the rows are the
\* entries, one for one.
MachineRollup ==
    (machineWiseData # NotComputed /\ ~machineWiseData.threw) =>
        LET rows == machineWiseData.rows
            entries == EntriesOf(unitData)
        IN  /\ {rows[i].machineName : i \in 1..Len(rows)}
                  = {Get(entries[i].mach, "machineName").s : i \in 1..Len(entries)}
            /\ \A i, j \in 1..Len(rows) : rows[i].machineName = rows[j].machineName => i = j
            /\ \A i \in 1..Len(rows) :
                  RowIsRollup(rows[i], EntriesNamed(unitData, rows[i].machineName))

----------------------------------------------------------------------------
(* Claims about the ratio metrics, the drill-down, the selects and the     *)
(* fetches.                                                                *)

\* the search report by machine and the trend of CVAvg by machine are both
\* computed from the records of the state
RatioBothShown ==
    /\ activeTab = "trend"
    /\ groupBy = "MachineName" /\ groups # NoPass
    /\ selectedFirstColumn = "machinename" /\ selectedParameter = "CVAvg"
    /\ trendMap # NoPass
    /\ trendMap = TrendAccumulators(data, Sel).trendMap
    /\ trendResponse = CalculateTrend(data, Sel)

\* the records routed to the group of a machine
RatioRouted(machine) ==
    SelectSeq(data, LAMBDA r : JsString(Get(r, "MachineName")) = machine)

\* C21: for CVAvg, every record routed to a group adds its value (0 when
\* absent or not a number) to the sum and 1 to the count, in the search
\* report and in the trend engine alike, so that both show the same mean.
RatioAccumulation ==
    RatioBothShown =>
        \A machine \in DOMAIN groups :
            LET routed == RatioRouted(machine)
                stats == trendMap[D2][machine]
                acc == groups[machine]
                row == CHOOSE r \in Range(groupedRows) : r.groupKey = machine
            IN  /\ stats.count = Num(Len(routed))
                /\ GetOrZero(acc.counts, "CVAvg") = Num(Len(routed))
                /\ GetOrZero(acc.sums, "CVAvg") = stats.sum
                /\ row.cells["CV%"] = CellAt(trendResponse.data, Str(D2), Str(machine))

RECURSIVE SumInOrder(_)
\* the sum of the numbers of a sequence, added from the left to 0
SumInOrder(values) ==
    IF values = <<>> THEN Num(0)
    ELSE Add(SumInOrder(SubSeq(values, 1, Len(values) - 1)), values[Len(values)])

\* the totals of a field over the sub-accumulators of a group, one for each
\* order in which they can be added
SubTotals(stats, f) ==
    LET machines == DOMAIN stats.machines
        n == Cardinality(machines)
        orders == {o \in [1..n -> machines] : \A i, j \in 1..n : o[i] = o[j] => i = j}
    IN  {SumInOrder([i \in 1..n |-> stats.machines[o[i]][f]]) : o \in orders}

\* what the records add, in their order, to an accumulator
UpdatesOf(records) ==
    [sum |-> SumInOrder([i \in 1..Len(records) |->
                            ParameterValue(records[i], selectedParameter)]),
     refLength |-> SumInOrder([i \in 1..Len(records) |->
                                  NumberOrZero(records[i], "IPRefLength")]),
     yarnLength |-> SumInOrder([i \in 1..Len(records) |->
                                   NumberOrZero(records[i], "YarnLength")]),
     count |-> Num(Len(records))]

\* the machine that keys the sub-accumulator of a record
MachineKey(r) == LabelOrElse(r, "MachineName", Unknown)

\* no addition that gave the number was rounded: it is below 2^53
BelowTwoPow53(x) == x.h = 0

KeptDates ==
    {IsoDateString(ParseDate(Get(TrendKept[i], "ShiftStartTime").s)) : i \in 1..Len(TrendKept)}

\* the labels of the records that the trend tab is to route
KeptLabels == {JsString(TrendLabel(TrendKept[i], selectedFirstColumn)) : i \in 1..Len(TrendKept)}

KeptMachines == {MachineKey(TrendKept[i]) : i \in 1..Len(TrendKept)}

\* the rendered row of a label, or of a machine under a label
RenderedRow(label, isSubRow, parentLabel) ==
    {rendered.rows[i] : i \in {j \in 1..Len(rendered.rows) :
                                  /\ rendered.rows[j].label = label
                                  /\ rendered.rows[j].isSubRow = isSubRow
                                  /\ rendered.rows[j].parentLabel = parentLabel}}

\* the text of the cell of a rendered row in the column of a day
RenderedCell(row, date) ==
    row.cells[CHOOSE i \in 1..Len(rendered.columns) : rendered.columns[i] = Str(date)]

\* C23: a (date, label) cell is in the table of calculateTrend, and in a
\* drill-down table, exactly when a record that is not excluded has that day
\* and that label (and that machine); TrendView shows the text "-" in the
\* cells that are not there, and the value in those that are.
CellPresence ==
    (trendResponse # NoResponse /\ rendered # NotRendered /\ response = trendResponse) =>
        \A date \in KeptDates, key \in KeptLabels :
            /\ (CellAt(trendResponse.data, Str(date), Str(key)) # Undef)
                  <=> (RecordsOfCell(date, key) # <<>>)
            /\ \A row \in RenderedRow(Str(key), FALSE, Undef) :
                  (RenderedCell(row, date) = Str(Dash)) <=> (RecordsOfCell(date, key) = <<>>)
            /\ \A m \in KeptMachines :
                  /\ (CellAt(trendResponse.drillDownData[key].data, Str(date), Str(m)) # Undef)
                        <=> (RecordsOfMachine(date, key, m) # <<>>)
                  /\ \A row \in RenderedRow(Str(m), TRUE, Str(key)) :
                        (RenderedCell(row, date) = Str(Dash))
                            <=> (RecordsOfMachine(date, key, m) = <<>>)

\* C25: once no fetch is in flight, data is the response to the request
\* issued last (if it did not fail) and is [] if Reset came last.
DataIsLatestResponse ==
    (/\ inflight = {}
     /\ fetchLog.reset \/ (fetchLog.last > 0 /\ fetchLog.last \notin fetchLog.failed))
        => data = fetchLog.lastResult

\* C26: loading is true as long as a fetch is in flight and false once none
\* is, whether the fetches succeeded or failed.
LoadingWhileInFlight == loading <=> (inflight # {})

\* the rows of the labels on the screen (not those of the drill-down)
ScreenRows == {row \in RenderedRows : ~row.isSubRow}

\* the rows of the trend table of the PDF
PdfRows == IF pdfBody = NoPdf THEN {} ELSE {pdfBody.body[i] : i \in 1..Len(pdfBody.body)}

\* C24: for every label row, the "% Diff" written to the trend PDF of the
\* live report is the "% Diff" that TrendView shows for that row, rows
\* without a value in the first bucket included.
PdfDiffMatchesScreen ==
    (pdfBody # NoPdf /\ rendered # NotRendered) =>
        \A row \in ScreenRows :
            \A line \in PdfRows : line.label = row.label => line.diffPercent = row.diffPercent

\* whether the value v is offered because of a record whose timestamp parses
OfferedByDatedRecord(v) ==
    \E i \in 1..Len(data) :
        /\ NewDate(Get(data[i], "ShiftStartTime")).valid
        /\ Truthy(TrendOptionValue(data[i], selectedFirstColumn))
        /\ TrendOptionValue(data[i], selectedFirstColumn) = Str(v)

\* C27: with no unit selected, when one offered value v is selected alone
\* and some record with a timestamp that parses gave rise to that option,
\* the trend computed has exactly the labels [v].
OfferedValueIsLabel ==
    (/\ trendResponse # NoResponse
     /\ trendResponse = CalculateTrend(data, Sel)
     /\ selectedUnit = <<>>
     /\ Len(selectedTrendValues) = 1
     /\ OfferedByDatedRecord(selectedTrendValues[1]))
        => trendResponse.labels = <<Str(selectedTrendValues[1])>>

\* C28: while trendLoading is true the button Show Data is disabled, so at
\* most one delayed aggregation (a timer of handleShowData that has not yet
\* fired) is pending at any time.
OnePendingAggregation == Cardinality(timer) <= 1

\* C29: after any sequence of selections of the metric group and of the
\* parameter, selectedParameter is one of GROUP_PARAMETERS[selectedTrendGroup].
ParameterOfGroup == selectedParameter \in GROUP_PARAMETERS[selectedTrendGroup]

\* a trend computed after the group and then the parameter were changed
ParameterChosenInGroup ==
    /\ selectedTrendGroup = "alarms"
    /\ selectedParameter = "NSABlks"
    /\ trendResponse = CalculateTrend(data, Sel)
    /\ data # <<>>

\* C30: on a tab other than trend, while no date, unit or machine is
\* selected and the shift is at its default "all" (All Shifts), the interval
\* that fetches the live data again every 30 seconds is set.
PollsWithAllShifts ==
    (/\ liveReport # NotMounted
     /\ liveReport.activeTab # "trend"
     /\ liveReport.selectedDate = "" /\ liveReport.selectedUnit = ""
     /\ liveReport.selectedMachine = "" /\ liveReport.selectedShift = "all")
        => liveReport.interval

====
